---- MODULE Spec2Model ----
(***************************************************************************)
(* Model of the OAuth 2.0 client of src/src/api/gcr.js                     *)
(* (GoogleClassroomClient): token storage, the authorization round trip    *)
(* with its state nonce, token refresh and the authenticated request       *)
(* dispatcher with its single retry on 401.                                *)
(*                                                                         *)
(* Text values (messages, provider error details) are sequences of         *)
(* strings, so that template literals are concatenations; the empty        *)
(* sequence is the absent / empty (falsy) text.  Every async function is   *)
(* cut at the awaits where the event loop can run something else.          *)
(***************************************************************************)
EXTENDS Integers, Sequences, FiniteSets, TLC

\* ------------------------------------------------------------------ bounds
MaxNow == 120000

\* --------------------------------------------------------- JS value model
Null == "null"
NoExpiry == -1
NoText == <<>>

\* Date.now() advances by one of these between two steps (milliseconds)
TickSteps == {60000}

\* ------------------------------------------------------ program constants
ExpiryBufferMs == 60000

\* ------------------------------------------------------------ input sets
Clients == {1, 2}
Procs == {1, 2}
SeqClients == {1}
SeqProcs == {1}

Nonces == {"n1", "n2"}
CallbackStates == Nonces \cup {"wrong", Null}
Codes == {"abc"}
Scopes == {<<"scope-a">>, <<"scope-a", "scope-b">>}
AccessTokens == {"t1", "t2"}
RefreshTokens == {"r1", "r2"}
ExpiresIn == {60, 120}
Endpoints == {"https://classroom.googleapis.com/v1/courses"}
ResponseBodies == {"{id:1}", "{id:2}"}

\* ------------------------------------------------- decimal text of a number
Digits == <<"0", "1", "2", "3", "4", "5", "6", "7", "8", "9">>

RECURSIVE NumToString(_)
NumToString(n) ==
    IF n < 10 THEN <<Digits[n + 1]>>
    ELSE NumToString(n \div 10) \o <<Digits[(n % 10) + 1]>>

DigitValue(d) == CHOOSE i \in 0..9 : Digits[i + 1] = d

RECURSIVE ParseIntAcc(_, _)
ParseIntAcc(s, acc) ==
    IF s = <<>> THEN acc
    ELSE ParseIntAcc(Tail(s), acc * 10 + DigitValue(Head(s)))

parseInt(s) == ParseIntAcc(s, 0)

\* ----------------------------------------------------------------- errors
\* One shape for everything a catch clause can receive: an axios error
\* (response status and response data fields) or a plain Error (message only).
PlainError(m) ==
    [status |-> 0, error_description |-> NoText, error |-> NoText,
     error_message |-> NoText, data_message |-> NoText, message |-> m]

NoError == PlainError(NoText)

Or(a, b) == IF a # NoText THEN a ELSE b

\* error.response?.data?.error_description || error.response?.data?.error || error.message
TokenErrorMsg(e) == Or(e.error_description, Or(e.error, e.message))

\* error.response?.data?.error?.message || error.response?.data?.message || error.message
ApiErrorMsg(e) == Or(e.error_message, Or(e.data_message, e.message))

CsrfError == PlainError(<<"Invalid state parameter - possible CSRF attack">>)
\* mutant: only the transport message is reported, not the provider's detail
TokenExchangeError_MessageOnly(e) == PlainError(<<"Token exchange failed: ">> \o e.message)

TokenExchangeError(e) == PlainError(<<"Token exchange failed: ">> \o TokenErrorMsg(e))
NoRefreshTokenError == PlainError(<<"No refresh token available. Please re-authorize.">>)
TokenRefreshError(e) ==
    PlainError(<<"Token refresh failed: ">> \o TokenErrorMsg(e) \o <<". Please re-authorize.">>)
NoAccessTokenError == PlainError(<<"No access token available. Please authorize first.">>)
AuthenticationFailedError == PlainError(<<"Authentication failed. Please re-authorize.">>)
ApiRequestError(e) ==
    PlainError(<<"API request failed">>
               \o (IF e.status # 0 THEN <<" (", ToString(e.status), ")">> ELSE NoText)
               \o <<": ">> \o ApiErrorMsg(e))

\* what the token endpoint can answer with instead of a token set
TokenEndpointErrors ==
    { [PlainError(<<"Request failed with status code 400">>)
          EXCEPT !.status = 400, !.error_description = <<"Bad Request">>,
                 !.error = <<"invalid_grant">>],
      [PlainError(<<"Request failed with status code 401">>)
          EXCEPT !.status = 401, !.error = <<"invalid_client">>],
      PlainError(<<"Network Error">>) }

\* what the API can answer with instead of a 2xx response
ApiErrors ==
    { [PlainError(<<"Request failed with status code 401">>) EXCEPT !.status = 401],
      [PlainError(<<"Request failed with status code 403">>)
          EXCEPT !.status = 403, !.error_message = <<"The caller does not have permission">>],
      PlainError(<<"Network Error">>) }

TokenResponses ==
    [access_token : AccessTokens, refresh_token : RefreshTokens \cup {Null},
     expires_in : ExpiresIn]

NoData == [access_token |-> Null, refresh_token |-> Null, expires_in |-> 0]

\* ------------------------------------------------------------------ state
VARIABLES now, mem, localStorage, sessionStorage, pc, fr, hist, fault, env

vars == <<now, mem, localStorage, sessionStorage, pc, fr, hist, fault, env>>

EmptyMem == [accessToken |-> Null, refreshToken |-> Null, tokenExpiry |-> NoExpiry]

EmptyStorage ==
    [gcr_access_token |-> Null, gcr_refresh_token |-> Null, gcr_token_expiry |-> NoText]

\* what is wrong with window.localStorage in this browser:
\*   "none"    it works
\*   "full"    setItem throws (quota exceeded); getItem and removeItem work
\*   "denied"  every access throws (storage blocked by the browser's policy)
NoFault == "none"
StorageFaults == {NoFault, "full", "denied"}

\* import.meta.env as the build left it for src/services/gcrService.js: a
\* variable is undefined (Null), empty or set
NoEnv == [VITE_GCR_API_URL |-> Null, VITE_GCR_PROJECT_ID |-> Null, VITE_GCR_API_KEY |-> Null]

Envs ==
    [VITE_GCR_API_URL : {Null, "", "https://gcr.io/v2"},
     VITE_GCR_PROJECT_ID : {Null, "", "project-a", "project-b"},
     VITE_GCR_API_KEY : {Null, "key-1"}]

\* what fetchGCRDetails resolves to: { success, data, projectId } or
\* { success, error }; a property that is not there is Null or the empty text
NoReply == [success |-> FALSE, data |-> Null, projectId |-> Null, error |-> NoText]

NoHeaders == [Authorization |-> NoText, ContentType |-> NoText, XCustom |-> NoText]

NoDesc == [endpoint |-> Null, method |-> "GET", body |-> Null, headers |-> NoHeaders]

NoResult ==
    [status |-> "none", value |-> Null, flag |-> FALSE, data |-> NoData,
     err |-> NoError, at |-> 0]

NoUrl == [state |-> Null, scope |-> NoText]

\* history of the authorization round trips (not program state):
\*   latest      the nonce the most recent authorize put in its URL
\*   overwritten the nonce that authorize found stored and replaced
\*   consumed    the nonce that passed validation since the last authorize
\*   exchange    how the exchange that followed that validation ended
\*   failed      the refresh tokens whose refresh failed and that no successful
\*               handleCallback has supplied since
\*   stale       the refresh tokens whose refresh failed and that no token
\*               response at all has supplied since
\*   track       whether the nonces are being recorded in this specification
\*   trackTokens whether the refresh tokens are being recorded in it
NoHist ==
    [track |-> FALSE, trackTokens |-> FALSE, latest |-> Null, overwritten |-> Null,
     consumed |-> Null, exchange |-> "none", failed |-> {}, stale |-> {}]

\* the history after a token response supplied the refresh token rt
Supplied(h, rt, byCallback) ==
    IF h.trackTokens
    THEN [h EXCEPT !.failed = IF byCallback THEN @ \ {rt} ELSE @, !.stale = @ \ {rt}]
    ELSE h

\* the history after the refresh request carrying rt failed
RefreshFailedWith(h, rt) ==
    IF h.trackTokens
    THEN [h EXCEPT !.failed = @ \cup {rt}, !.stale = @ \cup {rt}]
    ELSE h

Snapshot(c) ==
    [mem |-> mem[c], ls |-> localStorage, ss |-> sessionStorage, now |-> now,
     hist |-> hist]

\* the query parameters of window.location.search
NoParams == [code |-> Null, state |-> Null]

\* the exported function an operation runs on behalf of, with what it found:
\*   authenticated  client.isAuthenticated() was true on the fresh client
\*   callback       its handleCallback on the URL's code and state succeeded
NoCaller ==
    [fn |-> "none", url |-> NoParams, authenticated |-> FALSE, callback |-> FALSE]

IdleFrame ==
    [op |-> "none", cl |-> 1, code |-> Null, state |-> Null, desc |-> NoDesc,
     token |-> Null, ret |-> "none", err |-> NoError, href |-> NoUrl,
     tokenReqs |-> <<>>, refreshes |-> 0, sent |-> <<>>, resp |-> <<>>,
     granted |-> <<>>, rejected |-> NoError, storageThrew |-> FALSE,
     caller |-> NoCaller, fetched |-> <<>>, reply |-> NoReply,
     pre |-> [mem |-> EmptyMem, ls |-> EmptyStorage, ss |-> Null, now |-> 0,
              hist |-> NoHist],
     result |-> NoResult]

NewFrame(c, name) == [IdleFrame EXCEPT !.op = name, !.cl = c, !.pre = Snapshot(c)]

Init ==
    /\ now = 0
    /\ mem = [c \in Clients |-> EmptyMem]
    /\ localStorage = EmptyStorage
    /\ sessionStorage = Null
    /\ pc = [p \in Procs |-> "idle"]
    /\ fr = [p \in Procs |-> IdleFrame]
    /\ hist = NoHist
    /\ fault = NoFault
    /\ env = NoEnv

CanStart(p) == pc[p] = "idle"

Finish(p, f, r) ==
    /\ pc' = [pc EXCEPT ![p] = "done"]
    /\ fr' = [fr EXCEPT ![p] = [f EXCEPT !.result = [r EXCEPT !.at = now]]]

Ok(v, d) == [NoResult EXCEPT !.status = "ok", !.value = v, !.data = d]
OkFlag(b) == [NoResult EXCEPT !.status = "ok", !.flag = b]
Err(e) == [NoResult EXCEPT !.status = "err", !.err = e]

\* the caller that awaited the operation takes its result
Return(p) ==
    /\ pc[p] = "done"
    /\ pc' = [pc EXCEPT ![p] = "idle"]
    /\ fr' = [fr EXCEPT ![p] = IdleFrame]
    /\ UNCHANGED <<now, mem, localStorage, sessionStorage, hist, fault, env>>

\* ------------------------------------------------------------ TokenStore
\* localStorage.setItem returns normally
SetItemWorks == fault = NoFault

\* localStorage.getItem and localStorage.removeItem return normally
StorageReachable == fault # "denied"

loadTokensFromStorage(ls) ==
    [accessToken |-> ls.gcr_access_token,
     refreshToken |-> ls.gcr_refresh_token,
     tokenExpiry |-> IF ls.gcr_token_expiry # NoText
                     THEN parseInt(ls.gcr_token_expiry) ELSE NoExpiry]

\* mutant: expires_in is added as if it were milliseconds
saveTokensToStorage_Seconds(ls, accessToken, refreshToken, expiresIn, t) ==
    LET expiry == t + expiresIn
    IN [mem |-> [accessToken |-> accessToken, refreshToken |-> refreshToken,
                 tokenExpiry |-> expiry],
        ls |-> IF ~SetItemWorks THEN ls
               ELSE [gcr_access_token |-> accessToken,
                     gcr_refresh_token |-> IF refreshToken # Null THEN refreshToken
                                           ELSE ls.gcr_refresh_token,
                     gcr_token_expiry |-> NumToString(expiry)],
        threw |-> ~SetItemWorks]

\* the fields are assigned first; the first setItem that throws ends the try
\* block, and the catch logs the error and returns normally
saveTokensToStorage(ls, accessToken, refreshToken, expiresIn, t) ==
    LET expiry == t + (expiresIn * 1000)
    IN [mem |-> [accessToken |-> accessToken, refreshToken |-> refreshToken,
                 tokenExpiry |-> expiry],
        ls |-> IF ~SetItemWorks THEN ls
               ELSE [gcr_access_token |-> accessToken,
                     gcr_refresh_token |-> IF refreshToken # Null THEN refreshToken
                                           ELSE ls.gcr_refresh_token,
                     gcr_token_expiry |-> NumToString(expiry)],
        threw |-> ~SetItemWorks]

\* mutant: the boundary instant is not counted as expired
isTokenExpired_Strict(m, t) ==
    IF m.tokenExpiry = NoExpiry \/ m.tokenExpiry = 0 THEN TRUE
    ELSE t > (m.tokenExpiry - ExpiryBufferMs)

isTokenExpired(m, t) ==
    IF m.tokenExpiry = NoExpiry \/ m.tokenExpiry = 0 THEN TRUE
    ELSE t >= (m.tokenExpiry - ExpiryBufferMs)

\* client.isTokenExpired() called by the application
isTokenExpiredCall(p, c) ==
    /\ CanStart(p)
    /\ Finish(p, NewFrame(c, "isTokenExpired"), OkFlag(isTokenExpired(mem[c], now)))
    /\ UNCHANGED <<now, mem, localStorage, sessionStorage, hist, fault, env>>

\* mutant: the token counts as usable until its expiry, without the buffer
isAuthenticated_NoBuffer(m, t) == m.accessToken # Null /\ t < m.tokenExpiry

\* mutant: a token is reported as authenticated whatever its expiry
isAuthenticated_IgnoresExpiry(m, t) == m.accessToken # Null

isAuthenticated(m, t) == m.accessToken # Null /\ ~isTokenExpired(m, t)

\* client.isAuthenticated() called by the application
isAuthenticatedCall(p, c) ==
    /\ CanStart(p)
    /\ Finish(p, NewFrame(c, "isAuthenticated"), OkFlag(isAuthenticated(mem[c], now)))
    /\ UNCHANGED <<now, mem, localStorage, sessionStorage, hist, fault, env>>

\* new GoogleClassroomClient(...): the fields are read back from storage
Construct(p, c) ==
    /\ CanStart(p)
    /\ mem' = [mem EXCEPT ![c] = IF StorageReachable
                                 THEN loadTokensFromStorage(localStorage)
                                 ELSE EmptyMem]
    /\ Finish(p, NewFrame(c, "constructor"), Ok(Null, NoData))
    /\ UNCHANGED <<now, localStorage, sessionStorage, hist, fault, env>>

\* mutant: only the in-memory fields are reset, the entries stay in storage
clearedTokens_MemoryOnly(ls) == [mem |-> EmptyMem, ls |-> ls, threw |-> FALSE]

\* mutant: the refresh token entry is left in storage
clearedTokens_KeepsRefreshToken(ls) ==
    [mem |-> EmptyMem,
     ls |-> [EmptyStorage EXCEPT !.gcr_refresh_token = ls.gcr_refresh_token],
     threw |-> FALSE]

\* mutant: the expiry entry is left in storage
clearedTokens_KeepsExpiry(ls) ==
    [mem |-> EmptyMem,
     ls |-> [EmptyStorage EXCEPT !.gcr_token_expiry = ls.gcr_token_expiry],
     threw |-> FALSE]

\* the fields and the storage entries as clearTokens() leaves them: the
\* fields are reset first, a removeItem that throws is logged and swallowed
clearedTokens(ls) ==
    [mem |-> EmptyMem,
     ls |-> IF StorageReachable THEN EmptyStorage ELSE ls,
     threw |-> ~StorageReachable]

clearTokens(p, c) ==
    /\ CanStart(p)
    /\ mem' = [mem EXCEPT ![c] = clearedTokens(localStorage).mem]
    /\ localStorage' = clearedTokens(localStorage).ls
    /\ Finish(p, [NewFrame(c, "clearTokens") EXCEPT
                     !.storageThrew = clearedTokens(localStorage).threw],
              Ok(Null, NoData))
    /\ UNCHANGED <<now, sessionStorage, hist, fault, env>>

\* the browser's storage starts or stops failing
StorageFault ==
    /\ \E k \in StorageFaults \ {fault} : fault' = k
    /\ UNCHANGED <<now, mem, localStorage, sessionStorage, pc, fr, hist, env>>

Tick ==
    /\ \E d \in TickSteps :
          /\ now + d <= MaxNow
          /\ now' = now + d
    /\ UNCHANGED <<mem, localStorage, sessionStorage, pc, fr, hist, fault, env>>

\* ------------------------------------------ AuthorizationFlowCoordinator
RECURSIVE JoinScopes(_)
JoinScopes(s) ==
    IF Len(s) = 0 THEN NoText
    ELSE IF Len(s) = 1 THEN <<s[1]>>
    ELSE <<s[1], " ">> \o JoinScopes(Tail(s))

\* mutant: a nonce already stored is not overwritten
StoreState_KeepsFirst(saved, state) == IF saved # Null THEN saved ELSE state

\* sessionStorage.setItem('oauth_state', state)
StoreState(saved, state) == state

\* mutant: the state parameter is not compared
VerifyState_Skipped(state, savedState) == TRUE

\* state !== savedState is what throws
VerifyState(state, savedState) == state = savedState

\* mutant: the nonce is left in session storage after validation
RemoveState_Keeps(saved) == saved

\* sessionStorage.removeItem('oauth_state')
RemoveState(saved) == Null

\* the body of authorize, run in the frame f
AuthorizeStart(p, f, scopes) ==
    \E state \in Nonces :
        /\ sessionStorage' = StoreState(sessionStorage, state)
        /\ hist' = IF hist.track
                    THEN [hist EXCEPT !.latest = state, !.overwritten = sessionStorage,
                                      !.consumed = Null, !.exchange = "none"]
                    ELSE hist
        /\ Finish(p, [f EXCEPT !.href = [state |-> state, scope |-> JoinScopes(scopes)]],
                  Ok(Null, NoData))

authorize(p, c, scopes) ==
    /\ CanStart(p)
    /\ AuthorizeStart(p, NewFrame(c, "authorize"), scopes)
    /\ UNCHANGED <<now, mem, localStorage, fault, env>>

\* mutant: the nonce is removed only once the exchange has answered
HandleCallbackStart_RemovesLater(p, f) ==
    IF ~VerifyState(f.state, sessionStorage)
    THEN /\ Finish(p, f, Err(CsrfError))
         /\ UNCHANGED <<sessionStorage, hist>>
    ELSE /\ UNCHANGED <<sessionStorage, hist>>
         /\ pc' = [pc EXCEPT ![p] = "hc_await"]
         /\ fr' = [fr EXCEPT ![p] =
                      [f EXCEPT !.tokenReqs =
                          Append(@, [grant_type |-> "authorization_code",
                                     code |-> f.code, refresh_token |-> Null])]]

\* handleCallback(f.code, f.state) up to its await of the token endpoint
HandleCallbackStart(p, f) ==
    IF ~VerifyState(f.state, sessionStorage)
    THEN /\ Finish(p, f, Err(CsrfError))
         /\ UNCHANGED <<sessionStorage, hist>>
    ELSE /\ sessionStorage' = RemoveState(sessionStorage)
         /\ hist' = IF hist.track /\ sessionStorage # Null
                    THEN [hist EXCEPT !.consumed = f.state, !.exchange = "pending"]
                    ELSE hist
         /\ pc' = [pc EXCEPT ![p] = "hc_await"]
         /\ fr' = [fr EXCEPT ![p] =
                      [f EXCEPT !.tokenReqs =
                          Append(@, [grant_type |-> "authorization_code",
                                     code |-> f.code, refresh_token |-> Null])]]

handleCallback(p, c, code, state) ==
    /\ CanStart(p)
    /\ HandleCallbackStart(p, [NewFrame(c, "handleCallback") EXCEPT
                                  !.code = code, !.state = state])
    /\ UNCHANGED <<now, mem, localStorage, fault, env>>

Exchanged(f, how) ==
    IF hist.track /\ hist.consumed = f.state /\ hist.exchange = "pending"
    THEN [hist EXCEPT !.exchange = how] ELSE hist

\* the token endpoint answered the exchange with the token set data
handleCallbackOkWith(p, data) ==
    /\ pc[p] = "hc_await"
    /\ LET s == saveTokensToStorage(localStorage, data.access_token,
                                    data.refresh_token, data.expires_in, now)
           f == [fr[p] EXCEPT !.storageThrew = s.threw]
       IN /\ mem' = [mem EXCEPT ![fr[p].cl] = s.mem]
          /\ localStorage' = s.ls
          /\ IF f.caller.fn = "makeAuthenticatedRequest"
             THEN /\ pc' = [pc EXCEPT ![p] = "mar_resume"]
                  /\ fr' = [fr EXCEPT ![p] = f]
             ELSE Finish(p, f, Ok(Null, data))
    /\ hist' = Supplied(Exchanged(fr[p], "ok"), data.refresh_token, TRUE)
    /\ UNCHANGED <<now, sessionStorage, fault, env>>

handleCallbackOk(p) == \E data \in TokenResponses : handleCallbackOkWith(p, data)

\* the token endpoint rejected the exchange with e, or the transport failed
handleCallbackFailWith(p, e) ==
    /\ pc[p] = "hc_await"
    /\ Finish(p, [fr[p] EXCEPT !.err = e], Err(TokenExchangeError(e)))
    /\ hist' = Exchanged(fr[p], "err")
    /\ UNCHANGED <<now, mem, localStorage, sessionStorage, fault, env>>

handleCallbackFail(p) == \E e \in TokenEndpointErrors : handleCallbackFailWith(p, e)

\* ------------------------------------------------- TokenLifecycleManager
\* mutant: the inner catch of the retry rethrows what it caught
RefreshThrow_Propagates(p, f, ret, e) ==
    IF ret = "ensure" /\ f.op = "makeRequest"
    THEN /\ pc' = [pc EXCEPT ![p] = "mr_catch"]
         /\ fr' = [fr EXCEPT ![p] = [f EXCEPT !.err = e]]
    ELSE Finish(p, f, Err(e))

\* refreshAccessToken threw e; ret names the call site that awaits it
RefreshThrow(p, f, ret, e) ==
    IF ret = "retry" THEN Finish(p, f, Err(AuthenticationFailedError))
    ELSE IF ret = "ensure" /\ f.op = "makeRequest"
    THEN /\ pc' = [pc EXCEPT ![p] = "mr_catch"]
         /\ fr' = [fr EXCEPT ![p] = [f EXCEPT !.err = e]]
    ELSE Finish(p, f, Err(e))

\* mutant: the request is sent without checking that a refresh token exists
RefreshStart_NoCheck(p, f, ret) ==
    /\ pc' = [pc EXCEPT ![p] = "rf_await"]
    /\ fr' = [fr EXCEPT ![p] =
                 [f EXCEPT !.refreshes = @ + 1, !.ret = ret,
                           !.tokenReqs =
                               Append(@, [grant_type |-> "refresh_token", code |-> Null,
                                          refresh_token |-> mem[f.cl].refreshToken])]]

\* mutant: a refresh already in flight for the client is joined, not repeated
RefreshStart_SingleFlight(p, f, ret) ==
    LET g == [f EXCEPT !.refreshes = @ + 1, !.ret = ret]
    IN IF mem[f.cl].refreshToken = Null
       THEN RefreshThrow(p, g, ret, NoRefreshTokenError)
       ELSE /\ pc' = [pc EXCEPT ![p] = "rf_await"]
            /\ fr' = [fr EXCEPT ![p] =
                         IF \E q \in Procs \ {p} : pc[q] = "rf_await" /\ fr[q].cl = f.cl
                         THEN g
                         ELSE [g EXCEPT !.tokenReqs =
                                  Append(@, [grant_type |-> "refresh_token",
                                             code |-> Null,
                                             refresh_token |-> mem[f.cl].refreshToken])]]

\* refreshAccessToken up to its await of the token endpoint
RefreshStart(p, f, ret) ==
    LET g == [f EXCEPT !.refreshes = @ + 1, !.ret = ret]
    IN IF mem[f.cl].refreshToken = Null
       THEN RefreshThrow(p, g, ret, NoRefreshTokenError)
       ELSE /\ pc' = [pc EXCEPT ![p] = "rf_await"]
            /\ fr' = [fr EXCEPT ![p] =
                         [g EXCEPT !.tokenReqs =
                             Append(@, [grant_type |-> "refresh_token", code |-> Null,
                                        refresh_token |-> mem[f.cl].refreshToken])]]

\* mutant: the response's refresh token is stored even when it is absent
RefreshTokenToStore_Supplied(supplied, current) == supplied

\* refresh_token || this.refreshToken
RefreshTokenToStore(supplied, current) ==
    IF supplied # Null THEN supplied ELSE current

\* mutant: the response is dropped when the TokenSet changed since the call
refreshAccessTokenOkWith_CompareAndSwap(p, data) ==
    /\ pc[p] = "rf_await"
    /\ LET c == fr[p].cl
           rt == RefreshTokenToStore(data.refresh_token, mem[c].refreshToken)
           s == saveTokensToStorage(localStorage, data.access_token, rt,
                                    data.expires_in, now)
           f == [fr[p] EXCEPT !.granted = Append(@, data),
                              !.storageThrew = @ \/ s.threw]
           stale == mem[c] # fr[p].pre.mem
       IN /\ mem' = IF stale THEN mem ELSE [mem EXCEPT ![c] = s.mem]
          /\ localStorage' = IF stale THEN localStorage ELSE s.ls
          /\ IF f.ret = "direct" THEN Finish(p, f, Ok(Null, data))
             ELSE /\ pc' = [pc EXCEPT ![p] =
                               IF f.ret = "ensure" THEN "ev_resume" ELSE "mr_resume"]
                  /\ fr' = [fr EXCEPT ![p] = f]
    /\ UNCHANGED <<now, sessionStorage, hist, fault, env>>

\* mutant: the response is dropped when the client was logged out meanwhile
refreshAccessTokenOkWith_DropsAfterLogout(p, data) ==
    /\ pc[p] = "rf_await"
    /\ LET c == fr[p].cl
           rt == RefreshTokenToStore(data.refresh_token, mem[c].refreshToken)
           s == saveTokensToStorage(localStorage, data.access_token, rt,
                                    data.expires_in, now)
           f == [fr[p] EXCEPT !.granted = Append(@, data),
                              !.storageThrew = @ \/ s.threw]
           loggedOut == mem[c] = EmptyMem
       IN /\ mem' = IF loggedOut THEN mem ELSE [mem EXCEPT ![c] = s.mem]
          /\ localStorage' = IF loggedOut THEN localStorage ELSE s.ls
          /\ IF f.ret = "direct" THEN Finish(p, f, Ok(Null, data))
             ELSE /\ pc' = [pc EXCEPT ![p] =
                               IF f.ret = "ensure" THEN "ev_resume" ELSE "mr_resume"]
                  /\ fr' = [fr EXCEPT ![p] = f]
    /\ UNCHANGED <<now, sessionStorage, hist, fault, env>>

\* the token endpoint answered the refresh with the token set data
refreshAccessTokenOkWith(p, data) ==
    /\ pc[p] = "rf_await"
    /\ LET c == fr[p].cl
           rt == RefreshTokenToStore(data.refresh_token, mem[c].refreshToken)
           s == saveTokensToStorage(localStorage, data.access_token, rt,
                                    data.expires_in, now)
           f == [fr[p] EXCEPT !.granted = Append(@, data),
                              !.storageThrew = @ \/ s.threw]
       IN /\ mem' = [mem EXCEPT ![c] = s.mem]
          /\ localStorage' = s.ls
          /\ IF f.ret = "direct" THEN Finish(p, f, Ok(Null, data))
             ELSE /\ pc' = [pc EXCEPT ![p] =
                               IF f.ret = "ensure" THEN "ev_resume" ELSE "mr_resume"]
                  /\ fr' = [fr EXCEPT ![p] = f]
    /\ hist' = Supplied(hist, data.refresh_token, FALSE)
    /\ UNCHANGED <<now, sessionStorage, fault, env>>

refreshAccessTokenOk(p) == \E data \in TokenResponses : refreshAccessTokenOkWith(p, data)

\* mutant: the tokens are cleared only if they are still the ones the refresh
\* started from
refreshAccessTokenFailWith_KeepsNewer(p, e) ==
    /\ pc[p] = "rf_await"
    /\ LET newer == mem[fr[p].cl] # fr[p].pre.mem
       IN /\ mem' = IF newer THEN mem
                    ELSE [mem EXCEPT ![fr[p].cl] = clearedTokens(localStorage).mem]
          /\ localStorage' = IF newer THEN localStorage
                             ELSE clearedTokens(localStorage).ls
    /\ RefreshThrow(p, [fr[p] EXCEPT !.rejected = e,
                                      !.storageThrew =
                                          @ \/ clearedTokens(localStorage).threw],
                    fr[p].ret, TokenRefreshError(e))
    /\ UNCHANGED <<now, sessionStorage, hist, fault, env>>

\* mutant: a failed refresh leaves the tokens where they are
refreshAccessTokenFailWith_KeepsTokens(p, e) ==
    /\ pc[p] = "rf_await"
    /\ RefreshThrow(p, [fr[p] EXCEPT !.rejected = e], fr[p].ret, TokenRefreshError(e))
    /\ hist' = RefreshFailedWith(hist, fr[p].tokenReqs[Len(fr[p].tokenReqs)].refresh_token)
    /\ UNCHANGED <<now, mem, localStorage, sessionStorage, fault, env>>

\* the token endpoint rejected the refresh with e, or the transport failed
refreshAccessTokenFailWith(p, e) ==
    /\ pc[p] = "rf_await"
    /\ mem' = [mem EXCEPT ![fr[p].cl] = clearedTokens(localStorage).mem]
    /\ localStorage' = clearedTokens(localStorage).ls
    /\ RefreshThrow(p, [fr[p] EXCEPT !.rejected = e,
                                      !.storageThrew =
                                          @ \/ clearedTokens(localStorage).threw],
                    fr[p].ret, TokenRefreshError(e))
    /\ hist' = RefreshFailedWith(hist, fr[p].tokenReqs[Len(fr[p].tokenReqs)].refresh_token)
    /\ UNCHANGED <<now, sessionStorage, fault, env>>

refreshAccessTokenFail(p) ==
    \E e \in TokenEndpointErrors : refreshAccessTokenFailWith(p, e)

refreshAccessToken(p, c) ==
    /\ CanStart(p)
    /\ RefreshStart(p, NewFrame(c, "refreshAccessToken"), "direct")
    /\ UNCHANGED <<now, mem, localStorage, sessionStorage, hist, fault, env>>

\* ------------------------------------------------------ RequestDispatcher
ToUpperCase(m) ==
    CASE m = "get" -> "GET"
      [] m = "post" -> "POST"
      [] m = "put" -> "PUT"
      [] m = "patch" -> "PATCH"
      [] m = "delete" -> "DELETE"
      [] OTHER -> m

\* { Authorization, Content-Type, ...headers }
MergeHeaders(token, headers) ==
    [Authorization |-> Or(headers.Authorization, <<"Bearer ", token>>),
     ContentType |-> Or(headers.ContentType, <<"application/json">>),
     XCustom |-> headers.XCustom]

\* mutant: the method is compared as the caller wrote it
RequestConfig_CaseSensitive(desc, token) ==
    [url |-> desc.endpoint,
     method |-> ToUpperCase(desc.method),
     headers |-> MergeHeaders(token, desc.headers),
     data |-> IF desc.body # Null /\ desc.method \in {"POST", "PUT", "PATCH"}
              THEN desc.body ELSE Null]

RequestConfig(desc, token) ==
    LET method == ToUpperCase(desc.method)
    IN [url |-> desc.endpoint,
        method |-> method,
        headers |-> MergeHeaders(token, desc.headers),
        data |-> IF desc.body # Null /\ method \in {"POST", "PUT", "PATCH"}
                 THEN desc.body ELSE Null]

\* the request descriptors callers pass: { endpoint, method, body, headers }
Descriptors ==
    { [endpoint |-> e, method |-> "GET", body |-> Null, headers |-> NoHeaders]
          : e \in Endpoints }
    \cup { [endpoint |-> e, method |-> "post", body |-> "payload",
            headers |-> [NoHeaders EXCEPT !.XCustom = <<"1">>]] : e \in Endpoints }
    \cup { [endpoint |-> e, method |-> "DELETE", body |-> "payload",
            headers |-> NoHeaders] : e \in Endpoints }
    \cup { [endpoint |-> e, method |-> "PATCH", body |-> Null,
            headers |-> [NoHeaders EXCEPT !.Authorization = <<"Basic ", "caller">>]]
          : e \in Endpoints }

\* axios(config) is issued: the call is in flight
SendRequest(p, f, token, at) ==
    /\ pc' = [pc EXCEPT ![p] = at]
    /\ fr' = [fr EXCEPT ![p] =
                 [f EXCEPT !.token = token,
                           !.sent = Append(@, RequestConfig(f.desc, token))]]

\* ensureValidToken returns token to whoever awaits it
EnsureReturn(p, f, token) ==
    IF f.op = "makeRequest" THEN SendRequest(p, f, token, "mr_await1")
    ELSE Finish(p, f, Ok(token, NoData))

\* mutant: a stored access token is returned without looking at its expiry
EnsureStart_NoExpiryCheck(p, f) ==
    LET m == mem[f.cl]
    IN IF m.accessToken = Null
       THEN IF f.op = "makeRequest"
            THEN /\ pc' = [pc EXCEPT ![p] = "mr_catch"]
                 /\ fr' = [fr EXCEPT ![p] = [f EXCEPT !.err = NoAccessTokenError]]
            ELSE Finish(p, f, Err(NoAccessTokenError))
       ELSE EnsureReturn(p, f, m.accessToken)

\* mutant: expiry is looked at before the presence of an access token
EnsureStart_ExpiryFirst(p, f) ==
    LET m == mem[f.cl]
    IN IF isTokenExpired(m, now)
       THEN RefreshStart(p, f, "ensure")
       ELSE IF m.accessToken = Null
            THEN IF f.op = "makeRequest"
                 THEN /\ pc' = [pc EXCEPT ![p] = "mr_catch"]
                      /\ fr' = [fr EXCEPT ![p] = [f EXCEPT !.err = NoAccessTokenError]]
                 ELSE Finish(p, f, Err(NoAccessTokenError))
            ELSE EnsureReturn(p, f, m.accessToken)

\* ensureValidToken up to its first await
EnsureStart(p, f) ==
    LET m == mem[f.cl]
    IN IF m.accessToken = Null
       THEN IF f.op = "makeRequest"
            THEN /\ pc' = [pc EXCEPT ![p] = "mr_catch"]
                 /\ fr' = [fr EXCEPT ![p] = [f EXCEPT !.err = NoAccessTokenError]]
            ELSE Finish(p, f, Err(NoAccessTokenError))
       ELSE IF isTokenExpired(m, now)
            THEN RefreshStart(p, f, "ensure")
            ELSE EnsureReturn(p, f, m.accessToken)

ensureValidToken(p, c) ==
    /\ CanStart(p)
    /\ EnsureStart(p, NewFrame(c, "ensureValidToken"))
    /\ UNCHANGED <<now, mem, localStorage, sessionStorage, hist, fault, env>>

\* mutant: the token read before the refresh is the one returned
ensureValidTokenResume_Stale(p) ==
    /\ pc[p] = "ev_resume"
    /\ EnsureReturn(p, fr[p], fr[p].pre.mem.accessToken)
    /\ UNCHANGED <<now, mem, localStorage, sessionStorage, hist, fault, env>>

\* after "await this.refreshAccessToken()": return this.accessToken
ensureValidTokenResume(p) ==
    /\ pc[p] = "ev_resume"
    /\ EnsureReturn(p, fr[p], mem[fr[p].cl].accessToken)
    /\ UNCHANGED <<now, mem, localStorage, sessionStorage, hist, fault, env>>

makeRequest(p, c, desc) ==
    /\ CanStart(p)
    /\ EnsureStart(p, [NewFrame(c, "makeRequest") EXCEPT !.desc = desc])
    /\ UNCHANGED <<now, mem, localStorage, sessionStorage, hist, fault, env>>

\* mutant: a 401 is reported like any other status, without the retry
MakeRequestCatch_NoRetry(p, f, e) == Finish(p, f, Err(ApiRequestError(e)))

\* mutant: every failed response is retried, not only a 401
MakeRequestCatch_RetryAny(p, f, e) ==
    IF e.status # 0
    THEN RefreshStart(p, f, "retry")
    ELSE Finish(p, f, Err(ApiRequestError(e)))

\* the catch clause of makeRequest's outer try
MakeRequestCatch(p, f, e) ==
    IF e.status = 401
    THEN RefreshStart(p, f, "retry")
    ELSE Finish(p, f, Err(ApiRequestError(e)))

\* ensureValidToken rejected inside the outer try
makeRequestCatch(p) ==
    /\ pc[p] = "mr_catch"
    /\ MakeRequestCatch(p, fr[p], fr[p].err)
    /\ UNCHANGED <<now, mem, localStorage, sessionStorage, hist, fault, env>>

\* the first attempt comes back 2xx with body
makeRequestOkWith(p, body) ==
    /\ pc[p] = "mr_await1"
    /\ Finish(p, [fr[p] EXCEPT !.resp = Append(@, [status |-> 200, body |-> body])],
              Ok(body, NoData))
    /\ UNCHANGED <<now, mem, localStorage, sessionStorage, hist, fault, env>>

makeRequestOk(p) == \E body \in ResponseBodies : makeRequestOkWith(p, body)

\* the first attempt fails with e (non-2xx or transport)
makeRequestFailWith(p, e) ==
    /\ pc[p] = "mr_await1"
    /\ MakeRequestCatch(p, [fr[p] EXCEPT !.resp =
                               Append(@, [status |-> e.status, body |-> Null])], e)
    /\ UNCHANGED <<now, mem, localStorage, sessionStorage, hist, fault, env>>

makeRequestFail(p) == \E e \in ApiErrors : makeRequestFailWith(p, e)

\* after the forced refresh: const token = this.accessToken; axios(config)
makeRequestRetry(p) ==
    /\ pc[p] = "mr_resume"
    /\ SendRequest(p, fr[p], mem[fr[p].cl].accessToken, "mr_await2")
    /\ UNCHANGED <<now, mem, localStorage, sessionStorage, hist, fault, env>>

\* the retry comes back 2xx with body
makeRequestRetryOkWith(p, body) ==
    /\ pc[p] = "mr_await2"
    /\ Finish(p, [fr[p] EXCEPT !.resp = Append(@, [status |-> 200, body |-> body])],
              Ok(body, NoData))
    /\ UNCHANGED <<now, mem, localStorage, sessionStorage, hist, fault, env>>

makeRequestRetryOk(p) == \E body \in ResponseBodies : makeRequestRetryOkWith(p, body)

\* mutant: a retry that fails also clears the tokens
makeRequestRetryFailWith_ClearsTokens(p, e) ==
    /\ pc[p] = "mr_await2"
    /\ mem' = [mem EXCEPT ![fr[p].cl] = clearedTokens(localStorage).mem]
    /\ localStorage' = clearedTokens(localStorage).ls
    /\ Finish(p, [fr[p] EXCEPT !.resp = Append(@, [status |-> e.status, body |-> Null])],
              Err(AuthenticationFailedError))
    /\ UNCHANGED <<now, sessionStorage, hist, fault, env>>

\* mutant: a retry answered 401 is itself retried once more
makeRequestRetryFailWith_RetriesAgain(p, e) ==
    /\ pc[p] = "mr_await2"
    /\ LET f == [fr[p] EXCEPT !.resp = Append(@, [status |-> e.status, body |-> Null])]
       IN IF e.status = 401 /\ Len(f.sent) < 3
          THEN RefreshStart(p, f, "retry")
          ELSE Finish(p, f, Err(AuthenticationFailedError))
    /\ UNCHANGED <<now, mem, localStorage, sessionStorage, hist, fault, env>>

\* the inner catch swallows whatever the retry threw
makeRequestRetryFailWith(p, e) ==
    /\ pc[p] = "mr_await2"
    /\ Finish(p, [fr[p] EXCEPT !.resp = Append(@, [status |-> e.status, body |-> Null])],
              Err(AuthenticationFailedError))
    /\ UNCHANGED <<now, mem, localStorage, sessionStorage, hist, fault, env>>

makeRequestRetryFail(p) == \E e \in ApiErrors : makeRequestRetryFailWith(p, e)

\* ------------------------------------------------ makeAuthenticatedRequest
\* mutant: a stored access token is enough to go on to the request, so an
\* expired one is refreshed instead of re-authorizing
AuthRoute_TokenPresent(m, t, url) ==
    IF m.accessToken # Null THEN "request"
    ELSE IF url.code # Null /\ url.state # Null THEN "callback"
    ELSE "authorize"

\* which way makeAuthenticatedRequest goes for a fresh client with fields m
AuthRoute(m, t, url) ==
    IF isAuthenticated(m, t) THEN "request"
    ELSE IF url.code # Null /\ url.state # Null THEN "callback"
    ELSE "authorize"

\* what callers of makeAuthenticatedRequest pass: { endpoint, method, body }
SimpleDescriptors == {d \in Descriptors : d.headers = NoHeaders}

\* the query strings the page can be loaded with
Urls ==
    { NoParams,
      [code |-> "abc", state |-> "n1"],
      [code |-> "abc", state |-> Null] }

\* const client = new GoogleClassroomClient(clientId, clientSecret)
makeAuthenticatedRequest(p, c, url, scopes, desc) ==
    /\ CanStart(p)
    /\ mem' = [mem EXCEPT ![c] = IF StorageReachable
                                 THEN loadTokensFromStorage(localStorage)
                                 ELSE EmptyMem]
    /\ pc' = [pc EXCEPT ![p] = "mar_check"]
    /\ fr' = [fr EXCEPT ![p] =
                 [NewFrame(c, "makeAuthenticatedRequest") EXCEPT
                     !.desc = desc,
                     !.href = [NoUrl EXCEPT !.scope = JoinScopes(scopes)],
                     !.caller = [NoCaller EXCEPT !.fn = "makeAuthenticatedRequest",
                                                 !.url = url]]]
    /\ UNCHANGED <<now, localStorage, sessionStorage, hist, fault, env>>

\* if (!client.isAuthenticated()) { handleCallback or authorize } else the
\* request; scopes are kept joined in the frame until authorize needs them
makeAuthenticatedRequestCheck(p) ==
    /\ pc[p] = "mar_check"
    /\ LET c == fr[p].cl
           g == fr[p]
           route == AuthRoute(mem[c], now, g.caller.url)
       IN CASE route = "request" ->
                 /\ EnsureStart(p, [NewFrame(c, "makeRequest") EXCEPT
                                       !.desc = g.desc,
                                       !.caller = [g.caller EXCEPT
                                                      !.authenticated = TRUE]])
                 /\ UNCHANGED <<sessionStorage, hist>>
            [] route = "callback" ->
                 HandleCallbackStart(p, [NewFrame(c, "handleCallback") EXCEPT
                                            !.code = g.caller.url.code,
                                            !.state = g.caller.url.state,
                                            !.desc = g.desc,
                                            !.caller = g.caller])
            [] OTHER ->
                 \E scopes \in {sc \in Scopes : JoinScopes(sc) = g.href.scope} :
                     AuthorizeStart(p, [NewFrame(c, "authorize") EXCEPT
                                           !.caller = g.caller], scopes)
    /\ UNCHANGED <<now, mem, localStorage, fault, env>>

\* after "await client.handleCallback(code, state)": the request is made
makeAuthenticatedRequestResume(p) ==
    /\ pc[p] = "mar_resume"
    /\ EnsureStart(p, [NewFrame(fr[p].cl, "makeRequest") EXCEPT
                          !.desc = fr[p].desc,
                          !.caller = [fr[p].caller EXCEPT !.callback = TRUE]])
    /\ UNCHANGED <<now, mem, localStorage, sessionStorage, hist, fault, env>>

\* ------------------------------------------- services/gcrService.js
\* import.meta.env.X || ''
EnvOr(v) == IF v = Null THEN "" ELSE v

API_URL == EnvOr(env.VITE_GCR_API_URL)
PROJECT_ID == EnvOr(env.VITE_GCR_PROJECT_ID)
API_KEY == EnvOr(env.VITE_GCR_API_KEY)

MissingEnvMessage ==
    <<"Missing required environment variables. Please check your .env file.">>

\* what fetch() and response.json() can end with instead of a value
FetchRejections == {<<"Failed to fetch">>}
JsonRejections == {<<"Unexpected token < in JSON at position 0">>}

\* the responses fetch() resolves to: status, statusText and ok (status 2xx)
FetchResponses ==
    { [status |-> 200, statusText |-> "OK", ok |-> TRUE],
      [status |-> 404, statusText |-> "Not Found", ok |-> FALSE],
      [status |-> 500, statusText |-> "Internal Server Error", ok |-> FALSE] }

\* mutant: what is thrown inside the try block leaves the function
FetchCatch_Rethrows(p, f, message) == Finish(p, f, Err(PlainError(message)))

\* the catch clause: the error is logged and { success: false, error } returned
FetchCatch(p, f, message) ==
    Finish(p, [f EXCEPT !.reply = [NoReply EXCEPT !.error = message]], Ok(Null, NoData))

\* fetchGCRDetails up to its await of fetch()
FetchStart(p, f) ==
    IF API_URL = "" \/ PROJECT_ID = "" \/ API_KEY = ""
    THEN FetchCatch(p, f, MissingEnvMessage)
    ELSE /\ pc' = [pc EXCEPT ![p] = "fg_fetch"]
         /\ fr' = [fr EXCEPT ![p] =
                      [f EXCEPT !.fetched =
                          Append(@, [url |-> <<API_URL, "/", PROJECT_ID, "/tags/list">>,
                                     method |-> "GET",
                                     headers |-> [NoHeaders EXCEPT
                                         !.Authorization = <<"Bearer ", API_KEY>>,
                                         !.ContentType = <<"application/json">>]])]]

fetchGCRDetails(p) ==
    /\ CanStart(p)
    /\ FetchStart(p, NewFrame(1, "fetchGCRDetails"))
    /\ UNCHANGED <<now, mem, localStorage, sessionStorage, hist, fault, env>>

\* fetch() resolved with the response r
fetchGCRDetailsResponse(p, r) ==
    /\ pc[p] = "fg_fetch"
    /\ LET f == [fr[p] EXCEPT !.resp = Append(@, [status |-> r.status, body |-> Null])]
       IN IF ~r.ok
          THEN FetchCatch(p, f, <<"API request failed: ", ToString(r.status), " ",
                                  r.statusText>>)
          ELSE /\ pc' = [pc EXCEPT ![p] = "fg_json"]
               /\ fr' = [fr EXCEPT ![p] = f]
    /\ UNCHANGED <<now, mem, localStorage, sessionStorage, hist, fault, env>>

\* fetch() rejected: the network failed
fetchGCRDetailsNetworkError(p, message) ==
    /\ pc[p] = "fg_fetch"
    /\ FetchCatch(p, fr[p], message)
    /\ UNCHANGED <<now, mem, localStorage, sessionStorage, hist, fault, env>>

\* response.json() resolved with data
fetchGCRDetailsJson(p, data) ==
    /\ pc[p] = "fg_json"
    /\ Finish(p, [fr[p] EXCEPT !.reply = [success |-> TRUE, data |-> data,
                                          projectId |-> PROJECT_ID, error |-> NoText]],
              Ok(Null, NoData))
    /\ UNCHANGED <<now, mem, localStorage, sessionStorage, hist, fault, env>>

\* response.json() rejected: the body is not JSON
fetchGCRDetailsJsonError(p, message) ==
    /\ pc[p] = "fg_json"
    /\ FetchCatch(p, fr[p], message)
    /\ UNCHANGED <<now, mem, localStorage, sessionStorage, hist, fault, env>>

Next ==
    \/ Tick
    \/ \E p \in SeqProcs, c \in SeqClients :
          \/ Return(p)
          \/ Construct(p, c)
          \/ isTokenExpiredCall(p, c)
          \/ isAuthenticatedCall(p, c)
          \/ clearTokens(p, c)
          \/ \E s \in Scopes : authorize(p, c, s)
          \/ \E code \in Codes, st \in CallbackStates : handleCallback(p, c, code, st)
          \/ handleCallbackOk(p)
          \/ handleCallbackFail(p)
          \/ refreshAccessToken(p, c)
          \/ refreshAccessTokenOk(p)
          \/ refreshAccessTokenFail(p)
          \/ ensureValidToken(p, c)
          \/ ensureValidTokenResume(p)
          \/ \E d \in Descriptors : makeRequest(p, c, d)
          \/ makeRequestCatch(p)
          \/ makeRequestOk(p)
          \/ makeRequestFail(p)
          \/ makeRequestRetry(p)
          \/ makeRequestRetryOk(p)
          \/ makeRequestRetryFail(p)

Spec == Init /\ [][Next]_vars

\* The authorization round trip and the token store on their own, with the
\* history of the nonces recorded.
InitAuth ==
    /\ now = 0
    /\ mem = [c \in Clients |-> EmptyMem]
    /\ localStorage = EmptyStorage
    /\ sessionStorage = Null
    /\ pc = [p \in Procs |-> "idle"]
    /\ fr = [p \in Procs |-> IdleFrame]
    /\ hist = [NoHist EXCEPT !.track = TRUE]
    /\ fault = NoFault
    /\ env = NoEnv

NextAuth ==
    \/ Tick
    \/ \E p \in SeqProcs, c \in SeqClients :
          \/ Return(p)
          \/ Construct(p, c)
          \/ clearTokens(p, c)
          \/ \E s \in Scopes : authorize(p, c, s)
          \/ \E code \in Codes, st \in CallbackStates : handleCallback(p, c, code, st)
          \/ handleCallbackOk(p)
          \/ handleCallbackFail(p)
          \/ refreshAccessToken(p, c)
          \/ refreshAccessTokenOk(p)
          \/ refreshAccessTokenFail(p)

SpecAuth == InitAuth /\ [][NextAuth]_vars

\* The same operations with the history of the refresh tokens recorded
\* instead of the nonces'.
InitTokens ==
    /\ now = 0
    /\ mem = [c \in Clients |-> EmptyMem]
    /\ localStorage = EmptyStorage
    /\ sessionStorage = Null
    /\ pc = [p \in Procs |-> "idle"]
    /\ fr = [p \in Procs |-> IdleFrame]
    /\ hist = [NoHist EXCEPT !.trackTokens = TRUE]
    /\ fault = NoFault
    /\ env = NoEnv

SpecTokens == InitTokens /\ [][NextAuth]_vars

\* isTokenExpired on its own: the clock and the recorded expiry are drawn
\* around the 60 s buffer, then the predicate is called.
NowSamples == {0, 1000, 59999, 60000, 60001, 120000}
ExpirySamples ==
    {1000, 59999, 60000, 60001, 61000, 119999, 120000, 120001, 180000, 180001}

InitExpiry ==
    /\ now \in NowSamples
    /\ \E m \in {EmptyMem} \cup
                { [accessToken |-> "t1", refreshToken |-> "r1", tokenExpiry |-> e]
                      : e \in ExpirySamples } :
          /\ mem = [c \in Clients |-> m]
          /\ localStorage =
                IF m = EmptyMem THEN EmptyStorage
                ELSE [gcr_access_token |-> m.accessToken,
                      gcr_refresh_token |-> m.refreshToken,
                      gcr_token_expiry |-> NumToString(m.tokenExpiry)]
    /\ sessionStorage = Null
    /\ pc = [p \in Procs |-> "idle"]
    /\ fr = [p \in Procs |-> IdleFrame]
    /\ hist = NoHist
    /\ fault = NoFault
    /\ env = NoEnv

NextExpiry ==
    \/ Tick
    \/ \E p \in SeqProcs, c \in SeqClients :
          \/ Return(p)
          \/ isTokenExpiredCall(p, c)

SpecExpiry == InitExpiry /\ [][NextExpiry]_vars

\* The token store with a persistent storage that can fail.
NextStorage ==
    \/ StorageFault
    \/ \E p \in SeqProcs, c \in SeqClients :
          \/ Return(p)
          \/ Construct(p, c)
          \/ clearTokens(p, c)
          \/ \E s \in Scopes : authorize(p, c, s)
          \/ \E code \in Codes, st \in CallbackStates : handleCallback(p, c, code, st)
          \/ handleCallbackOk(p)
          \/ handleCallbackFail(p)
          \/ refreshAccessToken(p, c)
          \/ refreshAccessTokenOk(p)
          \/ refreshAccessTokenFail(p)

SpecStorage == Init /\ [][NextStorage]_vars

\* Two overlapping callers of one client instance: each starts one operation
\* while the other's may be suspended at an await.  The page was loaded with
\* the TokenSet of an earlier session in storage and a nonce pending.
StoredSession ==
    [gcr_access_token |-> "t1", gcr_refresh_token |-> "r1",
     gcr_token_expiry |-> NumToString(120000)]

\* what the servers answer while two callers overlap
ConcTokenResponses ==
    { [access_token |-> "t2", refresh_token |-> "r2", expires_in |-> 120],
      [access_token |-> "t1", refresh_token |-> Null, expires_in |-> 120] }

ConcTokenErrors == {e \in TokenEndpointErrors : e.status = 400}

ConcApiErrors == {e \in ApiErrors : e.status # 0}

InitConc ==
    /\ now = 0
    /\ localStorage = StoredSession
    /\ mem = [c \in Clients |-> loadTokensFromStorage(StoredSession)]
    /\ sessionStorage = "n1"
    /\ pc = [p \in Procs |-> "idle"]
    /\ fr = [p \in Procs |-> IdleFrame]
    /\ hist = NoHist
    /\ fault = NoFault
    /\ env = NoEnv

ConcDescriptors == {d \in Descriptors : d.method = "GET"}

NextConc ==
    \/ Tick
    \/ \E p \in Procs, c \in SeqClients :
          \/ clearTokens(p, c)
          \/ \E code \in Codes, st \in CallbackStates : handleCallback(p, c, code, st)
          \/ \E data \in ConcTokenResponses : handleCallbackOkWith(p, data)
          \/ \E e \in ConcTokenErrors : handleCallbackFailWith(p, e)
          \/ refreshAccessToken(p, c)
          \/ \E data \in ConcTokenResponses : refreshAccessTokenOkWith(p, data)
          \/ \E e \in ConcTokenErrors : refreshAccessTokenFailWith(p, e)
          \/ ensureValidTokenResume(p)
          \/ \E d \in ConcDescriptors : makeRequest(p, c, d)
          \/ makeRequestCatch(p)
          \/ makeRequestOkWith(p, "{id:1}")
          \/ \E e \in ConcApiErrors : makeRequestFailWith(p, e)
          \/ makeRequestRetry(p)
          \/ makeRequestRetryOkWith(p, "{id:1}")
          \/ \E e \in ConcApiErrors : makeRequestRetryFailWith(p, e)

SpecConc == InitConc /\ [][NextConc]_vars

\* The application that only ever calls makeAuthenticatedRequest.
NextSimple ==
    \/ Tick
    \/ \E p \in SeqProcs, c \in SeqClients :
          \/ Return(p)
          \/ \E url \in Urls, sc \in Scopes, d \in SimpleDescriptors :
                makeAuthenticatedRequest(p, c, url, sc, d)
          \/ makeAuthenticatedRequestCheck(p)
          \/ makeAuthenticatedRequestResume(p)
          \/ handleCallbackOk(p)
          \/ handleCallbackFail(p)
          \/ refreshAccessTokenOk(p)
          \/ refreshAccessTokenFail(p)
          \/ ensureValidTokenResume(p)
          \/ makeRequestCatch(p)
          \/ makeRequestOk(p)
          \/ makeRequestFail(p)
          \/ makeRequestRetry(p)
          \/ makeRequestRetryOk(p)
          \/ makeRequestRetryFail(p)

SpecSimple == Init /\ [][NextSimple]_vars

\* Two client instances constructed on the same page load, sharing the
\* browser's storage: the caller p works with its own instance p and starts
\* one operation, while the other's may be suspended or complete.
NextShared ==
    \/ Tick
    \/ \E p \in Procs :
          \/ Construct(p, p)
          \/ isAuthenticatedCall(p, p)
          \/ clearTokens(p, p)
          \/ refreshAccessToken(p, p)
          \/ \E data \in ConcTokenResponses : refreshAccessTokenOkWith(p, data)
          \/ \E e \in ConcTokenErrors : refreshAccessTokenFailWith(p, e)
          \/ ensureValidTokenResume(p)
          \/ \E d \in ConcDescriptors : makeRequest(p, p, d)
          \/ makeRequestCatch(p)
          \/ makeRequestOkWith(p, "{id:1}")
          \/ \E e \in ConcApiErrors : makeRequestFailWith(p, e)
          \/ makeRequestRetry(p)
          \/ makeRequestRetryOkWith(p, "{id:1}")
          \/ \E e \in ConcApiErrors : makeRequestRetryFailWith(p, e)

SpecShared == InitConc /\ [][NextShared]_vars

\* One caller making requests, every network call it issues being answered:
\* the page was loaded with the TokenSet of an earlier session in storage.
NextLive ==
    \/ Tick
    \/ \E p \in SeqProcs, c \in SeqClients :
          \/ Return(p)
          \/ \E code \in Codes, st \in CallbackStates : handleCallback(p, c, code, st)
          \/ handleCallbackOk(p)
          \/ handleCallbackFail(p)
          \/ refreshAccessTokenOk(p)
          \/ refreshAccessTokenFail(p)
          \/ ensureValidTokenResume(p)
          \/ \E d \in ConcDescriptors : makeRequest(p, c, d)
          \/ makeRequestCatch(p)
          \/ makeRequestOkWith(p, "{id:1}")
          \/ makeRequestFail(p)
          \/ makeRequestRetry(p)
          \/ makeRequestRetryOkWith(p, "{id:1}")
          \/ makeRequestRetryFail(p)

\* a suspended makeRequest of process p is resumed: the network call it
\* awaits is answered, or the continuation that is ready to run is run
Resumed(p) ==
    \/ refreshAccessTokenOk(p)
    \/ refreshAccessTokenFail(p)
    \/ ensureValidTokenResume(p)
    \/ makeRequestCatch(p)
    \/ makeRequestOkWith(p, "{id:1}")
    \/ makeRequestFail(p)
    \/ makeRequestRetry(p)
    \/ makeRequestRetryOkWith(p, "{id:1}")
    \/ makeRequestRetryFail(p)

SpecLive ==
    /\ InitConc
    /\ [][NextLive]_vars
    /\ \A p \in SeqProcs : WF_vars(Resumed(p))

\* The dashboard's service on its own: the configuration is what the build
\* found in the environment, and the button can be pressed again while a
\* fetch is in flight.
InitService ==
    /\ now = 0
    /\ mem = [c \in Clients |-> EmptyMem]
    /\ localStorage = EmptyStorage
    /\ sessionStorage = Null
    /\ pc = [p \in Procs |-> "idle"]
    /\ fr = [p \in Procs |-> IdleFrame]
    /\ hist = NoHist
    /\ fault = NoFault
    /\ env \in Envs

NextService ==
    \E p \in Procs :
        \/ Return(p)
        \/ fetchGCRDetails(p)
        \/ \E r \in FetchResponses : fetchGCRDetailsResponse(p, r)
        \/ \E m \in FetchRejections : fetchGCRDetailsNetworkError(p, m)
        \/ \E data \in ResponseBodies : fetchGCRDetailsJson(p, data)
        \/ \E m \in JsonRejections : fetchGCRDetailsJsonError(p, m)

SpecService == InitService /\ [][NextService]_vars

\* =================================================================== claims
Done(p, name) == pc[p] = "done" /\ fr[p].op = name

Running(p, name) == pc[p] \notin {"idle"} /\ fr[p].op = name

\* the TokenSet, in memory and in persistent storage, is what it was when
\* the operation started
TokensUnchanged(p) ==
    /\ mem[fr[p].cl] = fr[p].pre.mem
    /\ localStorage = fr[p].pre.ls

\* the taxonomy of section 7, read off the message an Error carries
ErrorKind(e) ==
    LET h == IF e.message = NoText THEN "" ELSE Head(e.message)
    IN CASE h = "Invalid state parameter - possible CSRF attack" -> "CsrfMismatch"
         [] h = "Token exchange failed: " -> "TokenExchangeFailed"
         [] h = "No refresh token available. Please re-authorize." -> "NoRefreshToken"
         [] h = "Token refresh failed: " -> "RefreshFailed"
         [] h = "No access token available. Please authorize first." -> "NotAuthorized"
         [] h = "Authentication failed. Please re-authorize." -> "AuthenticationFailed"
         [] h = "API request failed" -> "ApiRequestFailed"
         [] OTHER -> "none"

Failed(p, kind) == fr[p].result.status = "err" /\ ErrorKind(fr[p].result.err) = kind

\* the detail a provider error carries: its description, else its error
\* code, else the transport's message
ProviderDetail(e) ==
    IF e.error_description # NoText THEN e.error_description
    ELSE IF e.error # NoText THEN e.error
    ELSE e.message

\* expired as section 8 states it: nothing recorded, or expiry <= now + 60 s
ExpiredAt(m, t) == m.tokenExpiry = NoExpiry \/ m.tokenExpiry <= t + 60000

\* C1: handleCallback with a state that differs from the stored nonce fails
\* with CsrfMismatch, sends nothing to the token endpoint and leaves the
\* TokenSet (memory and persistent storage) unchanged.
C1_CsrfMismatchNoExchange ==
    \A p \in Procs :
        (Running(p, "handleCallback") /\ fr[p].state # fr[p].pre.ss)
        => /\ pc[p] = "done"
           /\ Failed(p, "CsrfMismatch")
           /\ fr[p].tokenReqs = <<>>
           /\ TokensUnchanged(p)

C1_Witness ==
    \E p \in Procs :
        /\ Done(p, "handleCallback")
        /\ fr[p].pre.ss # Null
        /\ fr[p].state # fr[p].pre.ss
        /\ fr[p].pre.mem.accessToken # Null
        /\ Failed(p, "CsrfMismatch")

\* C2: after any handleCallback attempt completes (success, CsrfMismatch or
\* TokenExchangeFailed) no nonce remains in session storage.
C2_NonceGoneAfterCallback ==
    \A p \in Procs : Done(p, "handleCallback") => sessionStorage = Null

\* C3: after authorize and a handleCallback with the matching state, a second
\* handleCallback with that same state fails with CsrfMismatch and sends
\* nothing to the token endpoint, whether the first exchange succeeded or not.
C3_SecondCallbackFails ==
    \A p \in Procs :
        (/\ Running(p, "handleCallback")
         /\ fr[p].pre.hist.consumed # Null
         /\ fr[p].pre.hist.exchange \in {"ok", "err"}
         /\ fr[p].state = fr[p].pre.hist.consumed)
        => /\ pc[p] = "done"
           /\ Failed(p, "CsrfMismatch")
           /\ fr[p].tokenReqs = <<>>

C3_Witness ==
    \E p \in Procs :
        /\ Done(p, "handleCallback")
        /\ fr[p].pre.hist.consumed # Null
        /\ fr[p].pre.hist.exchange = "err"
        /\ fr[p].state = fr[p].pre.hist.consumed
        /\ Failed(p, "CsrfMismatch")

\* C4: at most one unconsumed nonce exists: authorize leaves exactly the nonce
\* it put in its URL; after a second authorize replaced a stored nonce by a
\* different one, a handleCallback presenting the replaced nonce fails with
\* CsrfMismatch, and while a nonce is stored only the latest one passes.
C4_OneUnconsumedNonce ==
    \A p \in Procs :
        /\ Done(p, "authorize") => sessionStorage = fr[p].href.state
        /\ (/\ Running(p, "handleCallback")
            /\ fr[p].pre.hist.overwritten # Null
            /\ fr[p].state = fr[p].pre.hist.overwritten
            /\ fr[p].state # fr[p].pre.hist.latest)
           => /\ pc[p] = "done"
              /\ Failed(p, "CsrfMismatch")
              /\ fr[p].tokenReqs = <<>>
        /\ (/\ Running(p, "handleCallback")
            /\ fr[p].pre.ss # Null
            /\ fr[p].tokenReqs # <<>>)
           => fr[p].state = fr[p].pre.hist.latest

C4_Witness ==
    \E p \in Procs :
        /\ Done(p, "handleCallback")
        /\ fr[p].pre.hist.overwritten # Null
        /\ fr[p].state = fr[p].pre.hist.overwritten
        /\ fr[p].state # fr[p].pre.hist.latest
        /\ fr[p].pre.ss = fr[p].pre.hist.latest
        /\ Failed(p, "CsrfMismatch")

\* C5: after every successful handleCallback or refresh the three persistent
\* entries and the three in-memory fields hold the same TokenSet, exactly the
\* one derived from the response (expiry = receipt time + expires_in); no
\* field of an earlier TokenSet survives an exchange, also when the exchange
\* response carries no refresh token.
C5_TokenSetReplacedWhole ==
    \A p \in Procs :
        (/\ Done(p, "handleCallback") \/ Done(p, "refreshAccessToken")
         /\ fr[p].result.status = "ok")
        => LET d == fr[p].result.data
               rt == IF fr[p].op = "refreshAccessToken" /\ d.refresh_token = Null
                     THEN fr[p].pre.mem.refreshToken ELSE d.refresh_token
               set == [accessToken |-> d.access_token, refreshToken |-> rt,
                       tokenExpiry |-> fr[p].result.at + d.expires_in * 1000]
           IN /\ mem[fr[p].cl] = set
              /\ loadTokensFromStorage(localStorage) = set

\* C6: when state matches the stored nonce but the exchange fails,
\* handleCallback fails with TokenExchangeFailed carrying the provider's
\* error detail, and the TokenSet is exactly what it was before the call.
C6_ExchangeFailureKeepsTokens ==
    \A p \in Procs :
        (/\ Done(p, "handleCallback")
         /\ fr[p].state = fr[p].pre.ss
         /\ fr[p].err # NoError)
        => /\ Failed(p, "TokenExchangeFailed")
           /\ Tail(fr[p].result.err.message) = ProviderDetail(fr[p].err)
           /\ TokensUnchanged(p)

C6_Witness ==
    \E p \in Procs :
        /\ Done(p, "handleCallback")
        /\ fr[p].state = fr[p].pre.ss
        /\ fr[p].err.error_description # NoText
        /\ fr[p].pre.mem.accessToken # Null
        /\ Failed(p, "TokenExchangeFailed")
        /\ mem[fr[p].cl].accessToken # Null

\* C7: isExpired() is true when no expiry is recorded; otherwise it is false
\* exactly when expiryTimestamp > now + 60 s and true exactly when
\* expiryTimestamp <= now + 60 s.
C7_IsExpiredBoundary ==
    \A p \in Procs :
        Done(p, "isTokenExpired")
        => LET e == fr[p].pre.mem.tokenExpiry
               t == fr[p].pre.now
           IN /\ e = NoExpiry => fr[p].result.flag
              /\ (e # NoExpiry /\ e > t + 60000) => ~fr[p].result.flag
              /\ (e # NoExpiry /\ e <= t + 60000) => fr[p].result.flag

C7_Witness ==
    \E p \in Procs :
        /\ Done(p, "isTokenExpired")
        /\ fr[p].pre.mem.tokenExpiry = fr[p].pre.now + 60000
        /\ fr[p].result.flag

\* C8: when ensureValid fails with NotAuthorized, NoRefreshToken or
\* RefreshFailed, makeRequest fails with that same error, unchanged, and
\* issues no outbound API call.
C8_EnsureValidFailurePropagates ==
    \A p \in Procs :
        (/\ Done(p, "makeRequest")
         /\ fr[p].resp = <<>>
         /\ fr[p].err # NoError)
        => /\ fr[p].result.status = "err"
           /\ fr[p].result.err = fr[p].err
           /\ fr[p].sent = <<>>

\* C9: makeRequest started with an expired access token performs exactly one
\* refresh before any outbound call; if that refresh is rejected, no outbound
\* call is made, the final error is RefreshFailed and the token store is empty.
C9_ExpiredTokenRefreshedOnce ==
    \A p \in Procs :
        (/\ Running(p, "makeRequest")
         /\ fr[p].pre.mem.accessToken # Null
         /\ ExpiredAt(fr[p].pre.mem, fr[p].pre.now))
        => /\ pc[p] = "mr_await1"
              => fr[p].refreshes = 1 /\ Len(fr[p].tokenReqs) = 1
           /\ (pc[p] = "done" /\ fr[p].resp = <<>> /\ fr[p].tokenReqs # <<>>)
              => /\ fr[p].sent = <<>>
                 /\ Failed(p, "RefreshFailed")
                 /\ mem[fr[p].cl] = EmptyMem
                 /\ localStorage = EmptyStorage

Refreshing(p) ==
    /\ pc[p] # "idle"
    /\ fr[p].op \in {"refreshAccessToken", "ensureValidToken", "makeRequest"}

\* the message of RefreshFailed for a provider error e
RefreshFailedMessage(e) ==
    <<"Token refresh failed: ">> \o ProviderDetail(e) \o <<". Please re-authorize.">>

\* C11: if the first attempt returns 401 and then the forced refresh fails
\* (RefreshFailed or NoRefreshToken) or the retried call returns 401 again,
\* makeRequest fails with AuthenticationFailed and issues no further refresh
\* or outbound call.
C11_RetryFailureIsAuthenticationFailed ==
    \A p \in Procs :
        (/\ Done(p, "makeRequest")
         /\ fr[p].resp # <<>>
         /\ fr[p].resp[1].status = 401
         /\ \/ Len(fr[p].sent) = 1
            \/ Len(fr[p].resp) = 2 /\ fr[p].resp[2].status = 401)
        => /\ Failed(p, "AuthenticationFailed")
           /\ Len(fr[p].sent) <= 2
           /\ fr[p].refreshes = IF ExpiredAt(fr[p].pre.mem, fr[p].pre.now) THEN 2 ELSE 1
           /\ Len(fr[p].tokenReqs) <= fr[p].refreshes

C11_Witness ==
    \E p \in Procs :
        /\ Done(p, "makeRequest")
        /\ fr[p].resp # <<>>
        /\ fr[p].resp[1].status = 401
        /\ Len(fr[p].sent) = 1
        /\ fr[p].rejected # NoError
        /\ Failed(p, "AuthenticationFailed")

\* C12: when the retried attempt (after a 401 and a successful forced
\* refresh) returns a non-2xx status other than 401, makeRequest fails with
\* ApiRequestFailed carrying that status, not with AuthenticationFailed.
C12_RetryOtherStatusIsApiRequestFailed ==
    \A p \in Procs :
        (/\ Done(p, "makeRequest")
         /\ Len(fr[p].resp) = 2
         /\ fr[p].resp[2].status \notin {0, 200, 401})
        => /\ Failed(p, "ApiRequestFailed")
           /\ Len(fr[p].result.err.message) >= 3
           /\ fr[p].result.err.message[3] = ToString(fr[p].resp[2].status)

\* C13: when the first outbound attempt returns a non-2xx status other than
\* 401, makeRequest fails with ApiRequestFailed carrying that status; the
\* failure triggers no refresh, no second outbound call, and leaves the
\* TokenSet unchanged.
C13_OtherStatusNotRetried ==
    [][\A p \in Procs :
          (/\ pc[p] = "mr_await1"
           /\ pc'[p] # "mr_await1"
           /\ fr'[p].resp # <<>>
           /\ fr'[p].resp[1].status \notin {0, 200, 401})
          => /\ pc'[p] = "done"
             /\ fr'[p].result.status = "err"
             /\ ErrorKind(fr'[p].result.err) = "ApiRequestFailed"
             /\ Len(fr'[p].result.err.message) >= 3
             /\ fr'[p].result.err.message[3] = ToString(fr'[p].resp[1].status)
             /\ fr'[p].refreshes = fr[p].refreshes
             /\ fr'[p].tokenReqs = fr[p].tokenReqs
             /\ fr'[p].sent = fr[p].sent
             /\ Len(fr'[p].sent) = 1
             /\ mem' = mem
             /\ localStorage' = localStorage]_vars

C13_Witness ==
    \E p \in Procs :
        /\ Done(p, "makeRequest")
        /\ Len(fr[p].resp) = 1
        /\ fr[p].resp[1].status = 403
        /\ Failed(p, "ApiRequestFailed")
        /\ mem[fr[p].cl].accessToken # Null

\* C14: when refresh fails at the token endpoint (provider rejection or
\* transport failure) all three TokenSet fields are cleared in memory and in
\* persistent storage, and the refresh fails with RefreshFailed including
\* the provider's error detail.
C14_RefreshFailureClearsTokens ==
    \A p \in Procs :
        (Refreshing(p) /\ fr[p].rejected # NoError)
        => /\ mem[fr[p].cl] = EmptyMem
           /\ localStorage = EmptyStorage
           /\ fr[p].op \in {"refreshAccessToken", "ensureValidToken"}
              => /\ pc[p] = "done"
                 /\ Failed(p, "RefreshFailed")
                 /\ fr[p].result.err.message = RefreshFailedMessage(fr[p].rejected)
           /\ pc[p] = "mr_catch"
              => fr[p].err.message = RefreshFailedMessage(fr[p].rejected)

C14_Witness ==
    \E p \in Procs :
        /\ Done(p, "refreshAccessToken")
        /\ fr[p].rejected.error_description # NoText
        /\ fr[p].pre.ls.gcr_access_token # Null
        /\ fr[p].pre.ls.gcr_refresh_token # Null
        /\ Failed(p, "RefreshFailed")
        /\ localStorage = EmptyStorage

\* the refresh token that a run of successful refreshes leaves, starting
\* from prev: each response's own if it carries one, else the one before
RECURSIVE RefreshTokenAfter(_, _)
RefreshTokenAfter(prev, granted) ==
    IF granted = <<>> THEN prev
    ELSE RefreshTokenAfter(IF Head(granted).refresh_token # Null
                           THEN Head(granted).refresh_token ELSE prev,
                           Tail(granted))

\* C15: after a successful refresh the stored refresh token equals the
\* provider-supplied one if the response contains one; otherwise the refresh
\* token stored before the call is retained, in memory and in storage.
C15_RefreshTokenRetained ==
    \A p \in Procs :
        (Refreshing(p) /\ fr[p].granted # <<>> /\ fr[p].rejected = NoError)
        => LET rt == RefreshTokenAfter(fr[p].pre.mem.refreshToken, fr[p].granted)
           IN /\ rt # Null
              /\ mem[fr[p].cl].refreshToken = rt
              /\ localStorage.gcr_refresh_token = rt

C15_Witness ==
    \E p \in Procs :
        /\ Done(p, "refreshAccessToken")
        /\ fr[p].result.status = "ok"
        /\ fr[p].result.data.refresh_token = Null
        /\ fr[p].pre.mem.refreshToken = "r2"
        /\ mem[fr[p].cl].refreshToken = "r2"
        /\ localStorage.gcr_refresh_token = "r2"

\* C16 as stated: after every successful refresh the stored access token
\* differs from the one stored before the call and the stored expiry is
\* strictly greater than the one stored before the call.
C16_RefreshChangesTokenAndExpiry ==
    \A p \in Procs :
        (Done(p, "refreshAccessToken") /\ fr[p].result.status = "ok")
        => /\ mem[fr[p].cl].accessToken # fr[p].pre.mem.accessToken
           /\ mem[fr[p].cl].tokenExpiry > fr[p].pre.mem.tokenExpiry

\* C16 amended: after every successful refresh the stored access token is
\* the one the response carries and the stored expiry is the receipt time
\* plus expires_in seconds: strictly later than the receipt time, and
\* strictly later than the previous expiry when that one was within the
\* 60 s buffer and the response grants more than 60 s.
C16_RefreshStoresResponse ==
    \A p \in Procs :
        (Done(p, "refreshAccessToken") /\ fr[p].result.status = "ok")
        => LET d == fr[p].result.data
               m == mem[fr[p].cl]
               at == fr[p].result.at
           IN /\ m.accessToken = d.access_token
              /\ m.tokenExpiry = at + d.expires_in * 1000
              /\ m.tokenExpiry > at
              /\ localStorage.gcr_access_token = d.access_token
              /\ localStorage.gcr_token_expiry = NumToString(at + d.expires_in * 1000)
              /\ (ExpiredAt(fr[p].pre.mem, at) /\ d.expires_in > 60)
                 => m.tokenExpiry > fr[p].pre.mem.tokenExpiry

C16_Witness ==
    \E p \in Procs :
        /\ Done(p, "refreshAccessToken")
        /\ fr[p].result.status = "ok"
        /\ mem[fr[p].cl].accessToken = fr[p].pre.mem.accessToken
        /\ mem[fr[p].cl].tokenExpiry < fr[p].pre.mem.tokenExpiry
        /\ mem[fr[p].cl].tokenExpiry > fr[p].result.at

\* C17: refresh with no refresh token stored fails with NoRefreshToken,
\* sends nothing to the token endpoint and leaves the TokenSet unchanged (a
\* stored access token is not cleared).
C17_NoRefreshTokenLeavesTokens ==
    \A p \in Procs :
        (Running(p, "refreshAccessToken") /\ fr[p].pre.mem.refreshToken = Null)
        => /\ pc[p] = "done"
           /\ Failed(p, "NoRefreshToken")
           /\ fr[p].tokenReqs = <<>>
           /\ TokensUnchanged(p)

C17_Witness ==
    \E p \in Procs :
        /\ Done(p, "refreshAccessToken")
        /\ fr[p].pre.mem.refreshToken = Null
        /\ fr[p].pre.mem.accessToken # Null
        /\ mem[fr[p].cl].accessToken = fr[p].pre.mem.accessToken
        /\ Failed(p, "NoRefreshToken")

\* C18: ensureValid with no access token stored fails with NotAuthorized,
\* issues no network request and changes no state.
C18_NoAccessTokenNotAuthorized ==
    \A p \in Procs :
        (Running(p, "ensureValidToken") /\ fr[p].pre.mem.accessToken = Null)
        => /\ pc[p] = "done"
           /\ Failed(p, "NotAuthorized")
           /\ fr[p].tokenReqs = <<>>
           /\ fr[p].sent = <<>>
           /\ fr[p].refreshes = 0
           /\ TokensUnchanged(p)
           /\ sessionStorage = fr[p].pre.ss

C18_Witness ==
    \E p \in Procs :
        /\ Done(p, "ensureValidToken")
        /\ fr[p].pre.mem.accessToken = Null
        /\ fr[p].pre.ss # Null
        /\ sessionStorage = fr[p].pre.ss
        /\ Failed(p, "NotAuthorized")

\* C19: ensureValid with an access token stored: if isExpired() is false it
\* returns the stored token and sends nothing to the token endpoint; if
\* isExpired() is true it calls refresh exactly once, fails with refresh's
\* error if refresh fails, and otherwise returns the access token that
\* refresh just stored, never the one from before the refresh.
C19_EnsureValidReturnsUsableToken ==
    \A p \in Procs :
        (Done(p, "ensureValidToken") /\ fr[p].pre.mem.accessToken # Null)
        => LET f == fr[p]
           IN IF ~ExpiredAt(f.pre.mem, f.pre.now)
              THEN /\ f.result.status = "ok"
                   /\ f.result.value = f.pre.mem.accessToken
                   /\ f.tokenReqs = <<>>
                   /\ f.refreshes = 0
              ELSE /\ f.refreshes = 1
                   /\ Len(f.tokenReqs) <= 1
                   /\ f.pre.mem.refreshToken = Null => Failed(p, "NoRefreshToken")
                   /\ f.rejected # NoError
                      => /\ Failed(p, "RefreshFailed")
                         /\ f.result.err.message = RefreshFailedMessage(f.rejected)
                   /\ f.granted # <<>>
                      => /\ f.result.status = "ok"
                         /\ f.result.value = f.granted[1].access_token
                         /\ f.result.value = mem[f.cl].accessToken
                   /\ \/ f.pre.mem.refreshToken = Null
                      \/ f.rejected # NoError
                      \/ f.granted # <<>>

C19_Witness ==
    \E p \in Procs :
        /\ Done(p, "ensureValidToken")
        /\ fr[p].pre.mem.accessToken # Null
        /\ ExpiredAt(fr[p].pre.mem, fr[p].pre.now)
        /\ fr[p].granted # <<>>
        /\ fr[p].result.value # fr[p].pre.mem.accessToken
        /\ fr[p].result.value = fr[p].granted[1].access_token

\* C20 as stated: isAuthenticated() is true immediately after every
\* successful handleCallback and every successful refresh, and false
\* immediately after clearTokens and after any RefreshFailed.
C20_AuthenticatedAfterSuccess ==
    \A p \in Procs :
        /\ (/\ Done(p, "handleCallback") \/ Done(p, "refreshAccessToken")
            /\ fr[p].result.status = "ok")
           => isAuthenticated(mem[fr[p].cl], fr[p].result.at)
        /\ Done(p, "clearTokens") => ~isAuthenticated(mem[fr[p].cl], fr[p].result.at)
        /\ (pc[p] = "done" /\ fr[p].rejected # NoError)
           => ~isAuthenticated(mem[fr[p].cl], fr[p].result.at)

\* C20 amended: isAuthenticated() is true immediately after a successful
\* handleCallback or refresh exactly when the response grants more than the
\* 60 s buffer (expires_in > 60), and false immediately after clearTokens
\* and after any RefreshFailed.
C20_AuthenticatedAfterLongLivedGrant ==
    \A p \in Procs :
        /\ (/\ Done(p, "handleCallback") \/ Done(p, "refreshAccessToken")
            /\ fr[p].result.status = "ok")
           => (isAuthenticated(mem[fr[p].cl], fr[p].result.at)
               <=> fr[p].result.data.expires_in > 60)
        /\ Done(p, "clearTokens") => ~isAuthenticated(mem[fr[p].cl], fr[p].result.at)
        /\ (pc[p] = "done" /\ fr[p].rejected # NoError)
           => ~isAuthenticated(mem[fr[p].cl], fr[p].result.at)

C20_Witness ==
    \E p \in Procs :
        /\ Done(p, "handleCallback")
        /\ fr[p].result.status = "ok"
        /\ fr[p].result.data.expires_in = 60
        /\ ~isAuthenticated(mem[fr[p].cl], fr[p].result.at)

\* C21 as stated: RefreshFailed is the only error path that mutates token
\* state: every operation that ends in CsrfMismatch, TokenExchangeFailed,
\* NoRefreshToken, NotAuthorized, AuthenticationFailed or ApiRequestFailed
\* leaves the TokenSet equal to what it was before the operation.
C21_OnlyRefreshFailedMutates ==
    \A p \in Procs :
        (/\ pc[p] = "done"
         /\ fr[p].result.status = "err"
         /\ ErrorKind(fr[p].result.err) \in
                {"CsrfMismatch", "TokenExchangeFailed", "NoRefreshToken",
                 "NotAuthorized", "AuthenticationFailed", "ApiRequestFailed"})
        => TokensUnchanged(p)

\* C21 amended: the only mutation an error path performs is the clearing done
\* by a rejected refresh, whatever error the operation finally reports.  An
\* operation that ends in CsrfMismatch, TokenExchangeFailed, NoRefreshToken
\* or NotAuthorized leaves the TokenSet as it was.  Any operation that ends
\* in an error leaves it empty if a refresh was rejected during it, holding
\* the set of its last successful refresh if one succeeded, and as it was
\* before the operation otherwise.
C21_OnlyRejectedRefreshClears ==
    \A p \in Procs :
        (pc[p] = "done" /\ fr[p].result.status = "err")
        => LET f == fr[p]
           IN /\ ErrorKind(f.result.err) \in
                    {"CsrfMismatch", "TokenExchangeFailed", "NoRefreshToken",
                     "NotAuthorized"}
                 => TokensUnchanged(p)
              /\ ErrorKind(f.result.err) = "RefreshFailed" => f.rejected # NoError
              /\ f.rejected # NoError
                 => mem[f.cl] = EmptyMem /\ localStorage = EmptyStorage
              /\ (f.rejected = NoError /\ f.granted # <<>>)
                 => LET d == f.granted[Len(f.granted)]
                    IN /\ mem[f.cl].accessToken = d.access_token
                       /\ localStorage.gcr_access_token = d.access_token
                       /\ mem[f.cl].refreshToken =
                             RefreshTokenAfter(f.pre.mem.refreshToken, f.granted)
              /\ (f.rejected = NoError /\ f.granted = <<>>) => TokensUnchanged(p)

C21_Witness ==
    \E p \in Procs :
        /\ Done(p, "makeRequest")
        /\ Failed(p, "AuthenticationFailed")
        /\ fr[p].rejected # NoError
        /\ fr[p].pre.mem.accessToken # Null
        /\ ~ExpiredAt(fr[p].pre.mem, fr[p].pre.now)
        /\ fr[p].pre.ls.gcr_refresh_token # Null
        /\ mem[fr[p].cl] = EmptyMem
        /\ localStorage = EmptyStorage

\* C22 as stated: makeRequest never dispatches its first attempt with an
\* access token that isExpired() reports as expired at dispatch time.
C22_FirstAttemptNeverExpired ==
    [][\A p \in Procs :
          (pc[p] # "mr_await1" /\ pc'[p] = "mr_await1")
          => ~ExpiredAt(mem'[fr'[p].cl], now')]_vars

\* C22 amended: makeRequest never dispatches its first attempt with a token
\* that isExpired() reported as expired when ensureValid examined it: a token
\* found unexpired is sent as it is, and a token inside the buffer is always
\* replaced, before the call goes out, by the one a successful refresh just
\* stored.  That token is sent without being examined again; when stored it
\* is unexpired exactly when the refresh granted more than 60 s.
C22_FirstAttemptTokenFromEnsure ==
    [][\A p \in Procs :
          fr'[p].op = "makeRequest"
          => LET c == fr'[p].cl
             IN /\ (pc[p] = "idle" /\ pc'[p] = "mr_await1")
                   => /\ ~ExpiredAt(mem[c], now)
                      /\ fr'[p].token = mem[c].accessToken
                      /\ fr'[p].tokenReqs = <<>>
                /\ (pc[p] = "rf_await" /\ pc'[p] = "ev_resume")
                   => LET d == fr'[p].granted[Len(fr'[p].granted)]
                      IN /\ ExpiredAt(fr'[p].pre.mem, fr'[p].pre.now)
                         /\ mem'[c].accessToken = d.access_token
                         /\ ~ExpiredAt(mem'[c], now') <=> d.expires_in > 60
                /\ (pc[p] = "ev_resume" /\ pc'[p] = "mr_await1")
                   => /\ fr'[p].refreshes = 1
                      /\ Len(fr'[p].granted) = 1
                      /\ fr'[p].token = fr'[p].granted[1].access_token
                      /\ fr'[p].token = mem[c].accessToken
                /\ pc'[p] = "mr_await1"
                   => /\ Len(fr'[p].sent) = 1
                      /\ pc[p] \in {"idle", "ev_resume", "mr_await1"}]_vars

C22_Witness ==
    \E p \in Procs :
        /\ pc[p] = "mr_await1"
        /\ fr[p].op = "makeRequest"
        /\ fr[p].granted # <<>>
        /\ fr[p].granted[1].expires_in = 60
        /\ fr[p].token = fr[p].granted[1].access_token
        /\ fr[p].token # fr[p].pre.mem.accessToken
        /\ ExpiredAt(mem[fr[p].cl], now)

\* C23: no failure is swallowed: when writing or removing the persistent
\* token entries fails during handleCallback, refresh or clearTokens, the
\* operation surfaces a failure to its caller instead of completing as if it
\* had succeeded.
C23_StorageFailureSurfaces ==
    \A p \in Procs :
        (/\ pc[p] = "done"
         /\ fr[p].op \in {"handleCallback", "refreshAccessToken", "clearTokens"}
         /\ fr[p].storageThrew)
        => fr[p].result.status = "err"

\* C24: isAuthenticated() is a pure query: it returns true exactly when an
\* access token is present and isExpired() is false, changes neither the
\* TokenSet, the persistent storage nor the nonce, and issues no network call.
C24_IsAuthenticatedPure ==
    \A p \in Procs :
        Done(p, "isAuthenticated")
        => /\ fr[p].result.status = "ok"
           /\ fr[p].result.flag
              <=> (/\ fr[p].pre.mem.accessToken # Null
                   /\ ~ExpiredAt(fr[p].pre.mem, fr[p].pre.now))
           /\ TokensUnchanged(p)
           /\ sessionStorage = fr[p].pre.ss
           /\ fr[p].tokenReqs = <<>>
           /\ fr[p].sent = <<>>

C24_Witness ==
    \E p \in Procs :
        /\ Done(p, "isAuthenticated")
        /\ fr[p].pre.mem.accessToken # Null
        /\ fr[p].pre.mem.tokenExpiry = fr[p].pre.now + 60000
        /\ fr[p].pre.now > 0
        /\ fr[p].pre.ss # Null
        /\ sessionStorage = fr[p].pre.ss
        /\ ~fr[p].result.flag

\* C25: clearTokens removes all three token entries together, in memory and
\* in persistent storage, from any prior state, and leaves the stored
\* authorization nonce untouched.
C25_ClearTokensRemovesAll ==
    \A p \in Procs :
        Done(p, "clearTokens")
        => /\ mem[fr[p].cl] = EmptyMem
           /\ localStorage = EmptyStorage
           /\ sessionStorage = fr[p].pre.ss
           /\ fr[p].result.status = "ok"

C25_Witness ==
    \E p \in Procs :
        /\ Done(p, "clearTokens")
        /\ fr[p].pre.mem.accessToken # Null
        /\ fr[p].pre.mem.refreshToken = Null
        /\ fr[p].pre.ls.gcr_refresh_token # Null
        /\ fr[p].pre.ls.gcr_token_expiry # NoText
        /\ fr[p].pre.ss # Null
        /\ sessionStorage = fr[p].pre.ss
        /\ localStorage = EmptyStorage

\* makeRequest on process p found a stored access token that was expired
ObservedExpired(p) ==
    /\ Running(p, "makeRequest")
    /\ fr[p].pre.mem.accessToken # Null
    /\ fr[p].pre.mem.refreshToken # Null
    /\ ExpiredAt(fr[p].pre.mem, fr[p].pre.now)

\* the refresh request that carries the refresh token rt
RefreshRequest(rt) ==
    [grant_type |-> "refresh_token", code |-> Null, refresh_token |-> rt]

\* C26: there is no single-flight guard on refresh: when two makeRequest calls
\* on the same client overlap and both observe the expired token, each
\* issues its own refresh request, so two refresh requests carrying the same
\* refresh token reach the provider.
C26_NoSingleFlight ==
    \A p, q \in Procs :
        (/\ p # q
         /\ fr[p].cl = fr[q].cl
         /\ ObservedExpired(p)
         /\ ObservedExpired(q)
         /\ fr[p].pre.mem = fr[q].pre.mem)
        => /\ fr[p].refreshes >= 1
           /\ fr[p].tokenReqs # <<>>
           /\ fr[p].tokenReqs[1] = RefreshRequest(fr[p].pre.mem.refreshToken)
           /\ fr[q].tokenReqs # <<>>
           /\ fr[q].tokenReqs[1] = fr[p].tokenReqs[1]

C26_Witness ==
    /\ fr[1].cl = fr[2].cl
    /\ ObservedExpired(1)
    /\ ObservedExpired(2)
    /\ pc[1] = "rf_await"
    /\ pc[2] = "rf_await"
    /\ fr[1].tokenReqs = <<RefreshRequest("r1")>>
    /\ fr[2].tokenReqs = <<RefreshRequest("r1")>>

\* the TokenSet a successful handleCallback of process q stored
StoredByCallback(q) ==
    [accessToken |-> fr[q].result.data.access_token,
     refreshToken |-> fr[q].result.data.refresh_token,
     tokenExpiry |-> fr[q].result.at + fr[q].result.data.expires_in * 1000]

\* C27: token storage is last-write-wins: a refresh that was started before,
\* and completes after, a newer successful handleCallback overwrites the
\* newer token set with the refresh's result (access token and expiry of the
\* refresh response, its refresh token if it carries one), or clears it if
\* the refresh fails.
C27_LastWriteWins ==
    [][\A p, q \in Procs :
          (/\ p # q
           /\ fr[p].op = "refreshAccessToken"
           /\ pc[p] = "rf_await"
           /\ pc'[p] = "done"
           /\ Done(q, "handleCallback")
           /\ fr[q].result.status = "ok"
           /\ fr[q].cl = fr[p].cl
           /\ mem[fr[p].cl] = StoredByCallback(q)
           /\ mem[fr[p].cl] # fr[p].pre.mem)
          => LET c == fr[p].cl
                 d == fr'[p].result.data
                 rt == IF d.refresh_token # Null THEN d.refresh_token
                       ELSE mem[c].refreshToken
             IN IF fr'[p].result.status = "ok"
                THEN /\ mem'[c] = [accessToken |-> d.access_token,
                                   refreshToken |-> rt,
                                   tokenExpiry |-> now + d.expires_in * 1000]
                     /\ localStorage'.gcr_access_token = d.access_token
                     /\ localStorage'.gcr_token_expiry =
                           NumToString(now + d.expires_in * 1000)
                     /\ localStorage'.gcr_refresh_token =
                           IF rt # Null THEN rt ELSE localStorage.gcr_refresh_token
                ELSE /\ mem'[c] = EmptyMem
                     /\ localStorage' = EmptyStorage]_vars

C27_Witness ==
    \E p, q \in Procs :
        /\ p # q
        /\ Done(p, "refreshAccessToken")
        /\ fr[p].result.status = "ok"
        /\ Done(q, "handleCallback")
        /\ fr[q].result.status = "ok"
        /\ fr[p].pre.mem # StoredByCallback(q)
        /\ fr[q].result.data.access_token = "t2"
        /\ fr[p].result.data.access_token = "t1"
        /\ fr[q].result.at < fr[p].result.at
        /\ fr[p].pre.now < fr[q].result.at
        /\ mem[fr[p].cl].accessToken = "t1"
        /\ mem[fr[p].cl].refreshToken = "r2"
        /\ localStorage.gcr_access_token = "t1"

\* the refresh failed after the newer handleCallback: the newer set is gone
C27_ClearedWitness ==
    \E p, q \in Procs :
        /\ p # q
        /\ Done(p, "refreshAccessToken")
        /\ Failed(p, "RefreshFailed")
        /\ Done(q, "handleCallback")
        /\ fr[q].result.status = "ok"
        /\ fr[p].pre.now < fr[q].result.at
        /\ fr[q].result.at < fr[p].result.at
        /\ mem[fr[p].cl] = EmptyMem
        /\ localStorage = EmptyStorage

\* C28: every outbound API call issued by makeRequest carries the header
\* Authorization: Bearer <t>, t being the token ensureValid returned (first
\* attempt) or the token stored by the forced refresh (retry); merging the
\* caller's headers never replaces or removes it.
C28_BearerHeaderOnEveryCall ==
    \A p \in Procs :
        (Running(p, "makeRequest") /\ fr[p].sent # <<>>)
        => /\ fr[p].sent[Len(fr[p].sent)].headers.Authorization
                 = <<"Bearer ", fr[p].token>>
           /\ fr[p].token # Null
           /\ Len(fr[p].sent) = 2
              => fr[p].token = fr[p].granted[Len(fr[p].granted)].access_token

\* an operation that makeAuthenticatedRequest started on process p
Simplified(p) ==
    /\ pc[p] # "idle"
    /\ fr[p].caller.fn = "makeAuthenticatedRequest"
    /\ fr[p].op # "makeAuthenticatedRequest"

\* the URL carries both a code and a state
HasCallbackParams(url) == url.code # Null /\ url.state # Null

\* C29: makeAuthenticatedRequest issues an outbound API call only if the
\* freshly constructed client is authenticated or a handleCallback on the
\* URL's code and state has just succeeded; when the client is not
\* authenticated and the URL carries no code and state it calls authorize
\* and returns without any token-endpoint or API request, also when an
\* expired access token and a stored refresh token are available.
C29_SimplifiedRequestFlow ==
    \A p \in Procs :
        Simplified(p)
        => LET f == fr[p]
               auth == /\ f.pre.mem.accessToken # Null
                       /\ ~ExpiredAt(f.pre.mem, f.pre.now)
               params == HasCallbackParams(f.caller.url)
           IN /\ f.sent # <<>> => f.caller.authenticated \/ f.caller.callback
              /\ f.caller.callback
                 => /\ f.op = "makeRequest"
                    /\ ~f.caller.authenticated
                    /\ params
                    /\ f.pre.ss = Null
                    /\ f.pre.mem.accessToken # Null
              /\ ~f.caller.callback
                 => /\ f.caller.authenticated <=> auth
                    /\ f.op = "makeRequest" <=> auth
                    /\ f.op = "handleCallback" <=> (~auth /\ params)
                    /\ f.op = "authorize" <=> (~auth /\ ~params)
              /\ f.op = "handleCallback"
                 => /\ f.code = f.caller.url.code
                    /\ f.state = f.caller.url.state
                    /\ f.sent = <<>>
              /\ f.op = "authorize"
                 => /\ pc[p] = "done"
                    /\ f.result.status = "ok"
                    /\ f.result.value = Null
                    /\ f.tokenReqs = <<>>
                    /\ f.sent = <<>>
                    /\ f.refreshes = 0
                    /\ TokensUnchanged(p)
                    /\ sessionStorage = f.href.state

C29_Witness ==
    \E p \in Procs :
        /\ Simplified(p)
        /\ Done(p, "authorize")
        /\ fr[p].pre.mem.accessToken # Null
        /\ fr[p].pre.mem.refreshToken # Null
        /\ ExpiredAt(fr[p].pre.mem, fr[p].pre.now)
        /\ fr[p].pre.now > 0
        /\ fr[p].tokenReqs = <<>>
        /\ fr[p].sent = <<>>
        /\ mem[fr[p].cl].accessToken = fr[p].pre.mem.accessToken

\* an API call went out after handleCallback on the URL's parameters
C29_CallbackWitness ==
    \E p \in Procs :
        /\ Simplified(p)
        /\ Done(p, "makeRequest")
        /\ fr[p].caller.callback
        /\ fr[p].caller.url.state = "n1"
        /\ fr[p].result.status = "ok"
        /\ fr[p].sent # <<>>

\* the methods that carry a body, in the spellings callers use
MutatingMethods == {"POST", "post", "PUT", "put", "PATCH", "patch"}

\* C30: the outbound call includes a body if and only if a body was supplied
\* and the method, compared case-insensitively, is POST, PUT or PATCH; for
\* every other method a supplied body is dropped, and the first attempt and
\* the retry after a 401 apply the same rule.
C30_BodyOnlyForMutatingMethods ==
    \A p \in Procs :
        Running(p, "makeRequest")
        => \A i \in 1..Len(fr[p].sent) :
              fr[p].sent[i].data =
                  IF fr[p].desc.body # Null /\ fr[p].desc.method \in MutatingMethods
                  THEN fr[p].desc.body ELSE Null

C30_Witness ==
    \E p \in Procs :
        /\ Done(p, "makeRequest")
        /\ fr[p].desc.method = "post"
        /\ fr[p].desc.body # Null
        /\ Len(fr[p].sent) = 2
        /\ fr[p].sent[1].data = fr[p].desc.body
        /\ fr[p].sent[2].data = fr[p].desc.body

\* a supplied body is dropped for a method that is not POST, PUT or PATCH
C30_DroppedWitness ==
    \E p \in Procs :
        /\ Done(p, "makeRequest")
        /\ fr[p].desc.method = "DELETE"
        /\ fr[p].desc.body # Null
        /\ Len(fr[p].sent) = 2
        /\ fr[p].sent[1].data = Null
        /\ fr[p].sent[2].data = Null

\* C31: when two handleCallback calls with the same matching state overlap
\* (the second starts while the first's token exchange is still in flight),
\* at most one token-exchange request is issued and the second call fails
\* with CsrfMismatch.
C31_OverlappingCallbacks ==
    [][\A p, q \in Procs :
          (/\ p # q
           /\ pc[p] = "hc_await"
           /\ fr[p].op = "handleCallback"
           /\ fr[p].pre.ss # Null
           /\ fr[p].state = fr[p].pre.ss
           /\ pc[q] = "idle"
           /\ pc'[q] # "idle"
           /\ fr'[q].op = "handleCallback"
           /\ fr'[q].state = fr[p].state)
          => /\ pc'[q] = "done"
             /\ fr'[q].result.status = "err"
             /\ ErrorKind(fr'[q].result.err) = "CsrfMismatch"
             /\ fr'[q].tokenReqs = <<>>
             /\ Len(fr'[p].tokenReqs) = 1
             /\ pc'[p] = "hc_await"]_vars

C31_Witness ==
    \E p, q \in Procs :
        /\ p # q
        /\ pc[p] = "hc_await"
        /\ fr[p].op = "handleCallback"
        /\ fr[p].pre.ss = "n1"
        /\ fr[p].state = "n1"
        /\ Len(fr[p].tokenReqs) = 1
        /\ Done(q, "handleCallback")
        /\ fr[q].state = "n1"
        /\ fr[q].pre.ss = Null
        /\ Failed(q, "CsrfMismatch")
        /\ fr[q].tokenReqs = <<>>

\* nothing of a TokenSet is left for client c, in memory or in storage
TokenSetEmpty(c) == mem[c] = EmptyMem /\ localStorage = EmptyStorage

\* this step is the successful completion of a handleCallback on client c
CallbackSucceeds(c) ==
    \E p \in Procs :
        /\ pc[p] = "hc_await"
        /\ fr[p].cl = c
        /\ pc'[p] \in {"done", "mar_resume"}
        /\ mem'[c].accessToken # Null

\* this step is the token endpoint granting the refresh of process p
RefreshGranted(p) ==
    /\ pc[p] = "rf_await"
    /\ Len(fr'[p].granted) = Len(fr[p].granted) + 1

\* C32 (as stated): logout is durable: once clearTokens has returned, the
\* TokenSet stays empty and isAuthenticated() stays false until a later
\* handleCallback succeeds, even if a refresh that was started before
\* clearTokens completes after it.
C32_LogoutDurable ==
    [][\A q \in Procs :
          (Done(q, "clearTokens") /\ TokenSetEmpty(fr[q].cl))
          => \/ /\ mem'[fr[q].cl] = EmptyMem
                /\ localStorage' = EmptyStorage
                /\ ~isAuthenticated(mem'[fr[q].cl], now')
             \/ CallbackSucceeds(fr[q].cl)]_vars

\* C32 (amended): once clearTokens has returned, the TokenSet stays empty and
\* isAuthenticated() stays false until a later handleCallback succeeds or a
\* refresh that was started before clearTokens is granted after it: that
\* refresh stores the TokenSet of its response (with the response's refresh
\* token, or none), and isAuthenticated() is true again if the new token is
\* not inside the expiry buffer.
C32_LogoutUndoneOnlyByLateRefresh ==
    [][\A q \in Procs :
          (Done(q, "clearTokens") /\ TokenSetEmpty(fr[q].cl))
          => LET c == fr[q].cl
             IN IF \E p \in Procs : fr[p].cl = c /\ RefreshGranted(p)
                THEN \E p \in Procs :
                        /\ fr[p].cl = c
                        /\ RefreshGranted(p)
                        /\ fr[p].tokenReqs[Len(fr[p].tokenReqs)].refresh_token # Null
                        /\ LET d == fr'[p].granted[Len(fr'[p].granted)]
                               set == [accessToken |-> d.access_token,
                                       refreshToken |-> d.refresh_token,
                                       tokenExpiry |-> now + d.expires_in * 1000]
                           IN /\ mem'[c] = set
                              /\ loadTokensFromStorage(localStorage') = set
                              /\ isAuthenticated(mem'[c], now')
                                 <=> d.expires_in * 1000 > ExpiryBufferMs
                ELSE \/ /\ mem'[c] = EmptyMem
                        /\ localStorage' = EmptyStorage
                        /\ ~isAuthenticated(mem'[c], now')
                     \/ CallbackSucceeds(c)]_vars

C32_Witness ==
    \E p, q \in Procs :
        /\ p # q
        /\ Done(q, "clearTokens")
        /\ fr[q].pre.mem.accessToken # Null
        /\ Done(p, "refreshAccessToken")
        /\ fr[p].result.status = "ok"
        /\ fr[p].cl = fr[q].cl
        /\ fr[p].tokenReqs = <<RefreshRequest(fr[q].pre.mem.refreshToken)>>
        /\ fr[p].result.data.refresh_token = Null
        /\ mem[fr[q].cl].accessToken = fr[p].result.data.access_token
        /\ mem[fr[q].cl].refreshToken = Null
        /\ localStorage.gcr_access_token = fr[p].result.data.access_token
        /\ isAuthenticated(mem[fr[q].cl], now)

\* process q's refreshAccessToken is answered in this step, after the
\* refreshAccessToken of process p on the same client completed while q's
\* request was already in flight
SecondOfOverlappingRefreshes(p, q) ==
    /\ p # q
    /\ fr[p].cl = fr[q].cl
    /\ Done(p, "refreshAccessToken")
    /\ fr[p].tokenReqs # <<>>
    /\ fr[q].op = "refreshAccessToken"
    /\ pc[q] = "rf_await"
    /\ pc'[q] = "done"
    /\ fr[q].pre.now < fr[p].result.at

\* C33 (as stated): when two refresh calls overlap and one succeeds while the
\* other fails, the token set stored by the successful one is not erased by
\* the failing one: in every interleaving the client ends holding the
\* successful refresh's TokenSet.
C33_SuccessfulRefreshSurvives ==
    [][\A p, q \in Procs :
          (/\ SecondOfOverlappingRefreshes(p, q)
           /\ fr[p].result.status # fr'[q].result.status)
          => LET d == IF fr[p].result.status = "ok" THEN fr[p].result.data
                      ELSE fr'[q].result.data
             IN /\ mem'[fr[q].cl].accessToken = d.access_token
                /\ localStorage'.gcr_access_token = d.access_token]_vars

\* C33 (amended): when two refresh calls overlap and one succeeds while the
\* other fails, the one answered last decides: if the failing one is answered
\* last it erases the token set the successful one stored, in memory and in
\* storage; if the successful one is answered last the client ends holding
\* the TokenSet of its response, with the response's refresh token or none.
C33_LastAnsweredRefreshDecides ==
    [][\A p, q \in Procs :
          (/\ SecondOfOverlappingRefreshes(p, q)
           /\ fr[p].result.status # fr'[q].result.status)
          => LET c == fr[q].cl
                 d == fr'[q].result.data
             IN IF fr'[q].result.status = "err"
                THEN /\ ErrorKind(fr'[q].result.err) = "RefreshFailed"
                     /\ mem[c].accessToken = fr[p].result.data.access_token
                     /\ mem'[c] = EmptyMem
                     /\ localStorage' = EmptyStorage
                ELSE /\ mem[c] = EmptyMem
                     /\ mem'[c] = [accessToken |-> d.access_token,
                                   refreshToken |-> d.refresh_token,
                                   tokenExpiry |-> now + d.expires_in * 1000]
                     /\ loadTokensFromStorage(localStorage') = mem'[c]]_vars

C33_Witness ==
    \E p, q \in Procs :
        /\ p # q
        /\ Done(p, "refreshAccessToken")
        /\ fr[p].result.status = "ok"
        /\ fr[p].result.data.access_token = "t2"
        /\ Done(q, "refreshAccessToken")
        /\ Failed(q, "RefreshFailed")
        /\ fr[p].tokenReqs = fr[q].tokenReqs
        /\ fr[q].pre.now < fr[p].result.at
        /\ fr[p].result.at < fr[q].result.at
        /\ mem[fr[q].cl] = EmptyMem
        /\ localStorage = EmptyStorage

\* the successful refresh is answered last: its TokenSet is what is left
C33_SuccessLastWitness ==
    \E p, q \in Procs :
        /\ p # q
        /\ Done(p, "refreshAccessToken")
        /\ Failed(p, "RefreshFailed")
        /\ Done(q, "refreshAccessToken")
        /\ fr[q].result.status = "ok"
        /\ fr[q].pre.now < fr[p].result.at
        /\ fr[p].result.at < fr[q].result.at
        /\ mem[fr[q].cl].accessToken = fr[q].result.data.access_token
        /\ mem[fr[q].cl].refreshToken = Null

\* C34: handleCallback issues a token exchange only if a nonce is currently
\* stored and equals state: with no nonce stored (authorize never called, or
\* nonce already consumed) it fails with CsrfMismatch for every state value,
\* including an absent or null one.
C34_NoNonceNoExchange ==
    \A p \in Procs :
        Running(p, "handleCallback")
        => /\ fr[p].tokenReqs # <<>>
              => (fr[p].pre.ss # Null /\ fr[p].state = fr[p].pre.ss)
           /\ fr[p].pre.ss = Null
              => /\ pc[p] = "done"
                 /\ Failed(p, "CsrfMismatch")

\* makeRequest on process p has just failed with AuthenticationFailed
AuthenticationJustFailed(p) ==
    /\ Done(p, "makeRequest")
    /\ Failed(p, "AuthenticationFailed")
    /\ now = fr[p].result.at

\* C35 (as stated): after makeRequest fails with AuthenticationFailed,
\* isAuthenticated() is false: a session whose token the API has just
\* rejected twice, or could not be refreshed, is never still reported as
\* authenticated.
C35_NotAuthenticatedAfterFailure ==
    \A p \in Procs :
        AuthenticationJustFailed(p) => ~isAuthenticated(mem[fr[p].cl], now)

\* C35 (amended): after makeRequest fails with AuthenticationFailed,
\* isAuthenticated() is false if the forced refresh was rejected, which
\* cleared the TokenSet.  AuthenticationFailed itself changes nothing: if the
\* forced refresh found no refresh token the TokenSet is what it was before
\* the call, if the forced refresh was granted and the retry failed the
\* TokenSet is the one that refresh stored, and in both cases
\* isAuthenticated() is true unless that token is inside the expiry buffer.
C35_AuthenticatedUnlessRefreshRejected ==
    \A p \in Procs :
        AuthenticationJustFailed(p)
        => LET c == fr[p].cl
               f == fr[p]
           IN IF f.rejected # NoError
              THEN /\ mem[c] = EmptyMem
                   /\ localStorage = EmptyStorage
                   /\ ~isAuthenticated(mem[c], now)
              ELSE IF f.resp[Len(f.resp)].status = 401 /\ Len(f.sent) = 1
              THEN /\ f.pre.mem.refreshToken = Null
                   /\ f.granted = <<>>
                   /\ TokensUnchanged(p)
                   /\ mem[c].accessToken # Null
                   /\ isAuthenticated(mem[c], now) <=> ~ExpiredAt(mem[c], now)
              ELSE /\ Len(f.sent) = 2
                   /\ f.granted # <<>>
                   /\ mem[c].accessToken = f.granted[Len(f.granted)].access_token
                   /\ localStorage.gcr_access_token = mem[c].accessToken
                   /\ mem[c].refreshToken # Null
                   /\ isAuthenticated(mem[c], now) <=> ~ExpiredAt(mem[c], now)

\* the API rejected the token twice and the session is still reported
\* as authenticated
C35_Witness ==
    \E p \in Procs :
        /\ AuthenticationJustFailed(p)
        /\ Len(fr[p].sent) = 2
        /\ fr[p].resp[1].status = 401
        /\ fr[p].resp[2].status = 401
        /\ isAuthenticated(mem[fr[p].cl], now)

\* the token could not be refreshed for want of a refresh token
C35_NoRefreshTokenWitness ==
    \E p \in Procs :
        /\ AuthenticationJustFailed(p)
        /\ Len(fr[p].sent) = 1
        /\ fr[p].refreshes = 1
        /\ fr[p].tokenReqs = <<>>
        /\ isAuthenticated(mem[fr[p].cl], now)

\* the forced refresh was rejected: the tokens are gone
C35_RejectedWitness ==
    \E p \in Procs :
        /\ AuthenticationJustFailed(p)
        /\ fr[p].rejected # NoError
        /\ fr[p].pre.mem.accessToken # Null
        /\ ~isAuthenticated(mem[fr[p].cl], now)

\* the refresh tokens that the token requests of process p carry
RefreshTokensSent(p) ==
    {fr[p].tokenReqs[i].refresh_token : i \in 1..Len(fr[p].tokenReqs)} \ {Null}

\* C36 (as stated): on a single client instance with non-overlapping
\* operations, once a refresh carrying refresh token r has failed, no later
\* token-endpoint request carries r unless a subsequent successful
\* handleCallback supplied r again.
C36_FailedRefreshTokenNotReused ==
    \A p \in Procs :
        pc[p] # "idle" => RefreshTokensSent(p) \cap fr[p].pre.hist.failed = {}

\* C36 (amended): once a refresh carrying refresh token r has failed, no
\* later token-endpoint request carries r unless a subsequent successful
\* handleCallback, or a successful refresh after it, supplied r again; and
\* right after the failure no refresh token is left in memory or in storage.
C36_FailedRefreshTokenNotReusedUnlessSupplied ==
    \A p \in Procs :
        pc[p] # "idle"
        => /\ RefreshTokensSent(p) \cap fr[p].pre.hist.stale = {}
           /\ (Done(p, "refreshAccessToken") /\ Failed(p, "RefreshFailed"))
              => /\ RefreshTokensSent(p) \subseteq hist.stale
                 /\ mem[fr[p].cl].refreshToken = Null
                 /\ localStorage.gcr_refresh_token = Null

\* a refresh is in flight with a new refresh token after an earlier one failed
C36_Witness ==
    \E p \in Procs :
        /\ pc[p] = "rf_await"
        /\ fr[p].op = "refreshAccessToken"
        /\ fr[p].pre.hist.stale = {"r1"}
        /\ fr[p].tokenReqs = <<RefreshRequest("r2")>>

\* a failed refresh token is carried again after a refresh response supplied it
C36_ResuppliedWitness ==
    \E p \in Procs :
        /\ pc[p] = "rf_await"
        /\ fr[p].pre.hist.failed = {"r1"}
        /\ fr[p].pre.hist.stale = {}
        /\ fr[p].tokenReqs = <<RefreshRequest("r1")>>

\* the refresh requests among the token requests of process p
RefreshRequestsOf(p) ==
    {i \in 1..Len(fr[p].tokenReqs) : fr[p].tokenReqs[i].grant_type = "refresh_token"}

\* C37: every makeRequest invocation terminates, provided each network call
\* it issues completes, after at most two outbound API calls and at most two
\* refresh requests (one from ensureValid, one forced by a 401); it never
\* issues a third outbound call or a second retry.
C37_MakeRequestTerminates ==
    /\ [](\A p \in Procs :
             Running(p, "makeRequest")
             => /\ Len(fr[p].sent) <= 2
                /\ fr[p].refreshes <= 2
                /\ Cardinality(RefreshRequestsOf(p)) <= 2
                /\ Len(fr[p].sent) = 2 => fr[p].resp[1].status = 401
                /\ Cardinality(RefreshRequestsOf(p)) = 2
                   => /\ ExpiredAt(fr[p].pre.mem, fr[p].pre.now)
                      /\ Len(fr[p].resp) >= 1
                      /\ fr[p].resp[1].status = 401)
    /\ \A p \in SeqProcs : Running(p, "makeRequest") ~> Done(p, "makeRequest")

\* a makeRequest that refreshed twice and called the API twice has ended
C37_Witness ==
    \E p \in Procs :
        /\ Done(p, "makeRequest")
        /\ Len(fr[p].sent) = 2
        /\ Cardinality(RefreshRequestsOf(p)) = 2
        /\ Len(fr[p].granted) = 2
        /\ fr[p].resp[2].status = 401
        /\ Failed(p, "AuthenticationFailed")

\* process p has logged its instance out: clearTokens returned, or a refresh
\* failed with RefreshFailed, and the shared storage is still empty
LoggedOutBy(p) ==
    /\ \/ Done(p, "clearTokens")
       \/ Done(p, "refreshAccessToken") /\ Failed(p, "RefreshFailed")
    /\ fr[p].pre.mem.accessToken # Null
    /\ mem[fr[p].cl] = EmptyMem
    /\ localStorage = EmptyStorage

\* C38: logout is global across client instances sharing the same storage:
\* after clearTokens (or a RefreshFailed) completes on one instance, no other
\* already-constructed instance starts a new makeRequest that sends the
\* cleared access token or reports isAuthenticated() true.
C38_LogoutGlobal ==
    [][\A p, q \in Procs :
          (/\ p # q
           /\ LoggedOutBy(p)
           /\ pc[q] = "idle"
           /\ pc'[q] # "idle"
           /\ fr'[q].cl # fr[p].cl)
          => /\ fr'[q].op = "makeRequest"
                => \A i \in 1..Len(fr'[q].sent) :
                      fr'[q].sent[i].headers.Authorization
                         # <<"Bearer ", fr[p].pre.mem.accessToken>>
             /\ fr'[q].op = "isAuthenticated" => ~fr'[q].result.flag]_vars

\* one of the three configuration values is missing (undefined or empty)
ConfigMissing ==
    \E k \in {"VITE_GCR_API_URL", "VITE_GCR_PROJECT_ID", "VITE_GCR_API_KEY"} :
        env[k] \in {Null, ""}

\* C39: fetchGCRDetails never rejects: for every configuration and every
\* network outcome it resolves to either {success: true, data, projectId} or
\* {success: false, error}, and when any of the three configuration values
\* is missing it resolves to success: false without issuing a network
\* request.
C39_FetchNeverRejects ==
    \A p \in Procs :
        /\ Done(p, "fetchGCRDetails")
           => LET r == fr[p].reply
              IN /\ fr[p].result.status = "ok"
                 /\ IF r.success
                    THEN /\ r.data # Null
                         /\ r.projectId = env.VITE_GCR_PROJECT_ID
                         /\ r.error = NoText
                         /\ ~ConfigMissing
                         /\ Len(fr[p].fetched) = 1
                         /\ fr[p].resp = <<[status |-> 200, body |-> Null]>>
                    ELSE /\ r.error # NoText
                         /\ r.data = Null
                         /\ r.projectId = Null
                 /\ ConfigMissing
                    => /\ ~r.success
                       /\ r.error = MissingEnvMessage
                       /\ fr[p].fetched = <<>>
        /\ (Running(p, "fetchGCRDetails") /\ ConfigMissing)
           => /\ pc[p] = "done"
              /\ fr[p].fetched = <<>>

C39_Witness ==
    \E p \in Procs :
        /\ Done(p, "fetchGCRDetails")
        /\ ~ConfigMissing
        /\ Len(fr[p].fetched) = 1
        /\ fr[p].resp = <<[status |-> 200, body |-> Null]>>
        /\ ~fr[p].reply.success
        /\ fr[p].reply.error \in JsonRejections
        /\ fr[p].result.status = "ok"

\* a value is missing: success false and nothing was requested
C39_MissingWitness ==
    \E p \in Procs :
        /\ Done(p, "fetchGCRDetails")
        /\ env.VITE_GCR_API_URL = "https://gcr.io/v2"
        /\ env.VITE_GCR_PROJECT_ID = ""
        /\ env.VITE_GCR_API_KEY = "key-1"
        /\ ~fr[p].reply.success
        /\ fr[p].fetched = <<>>

\* the request succeeded
C39_SuccessWitness ==
    \E p \in Procs :
        /\ Done(p, "fetchGCRDetails")
        /\ fr[p].reply.success
        /\ fr[p].reply.projectId = "project-b"
        /\ fr[p].fetched[1].url = <<"https://gcr.io/v2", "/", "project-b", "/tags/list">>
        /\ fr[p].fetched[1].headers.Authorization = <<"Bearer ", "key-1">>

====
